---- MODULE Spec2Model ----
(***************************************************************************)
(* A model of miser: a local reverse proxy between an AI coding tool and   *)
(* the Anthropic API.  It covers the usage ledger (tracker.Tracker), the   *)
(* pricing resolver (pricingStore, GetPricing, CalculateCost) and the      *)
(* request handlers of the proxy (native /v1/messages and translated       *)
(* /v1/chat/completions, streaming and non-streaming).                     *)
(*                                                                         *)
(* Costs are Go float64 values.  They are modelled exactly: a float is a   *)
(* sign, a 53-bit mantissa and an exponent, and every operation rounds to  *)
(* nearest, ties to even, as IEEE 754 binary64 does.  Mantissas are        *)
(* natural numbers in limbs of 15 bits so that no intermediate value       *)
(* leaves the range of TLC integers.                            *)
(***************************************************************************)
EXTENDS Integers, Sequences, FiniteSets, TLC

(***************************************************************************)
(* Natural numbers of any size: little-endian sequences of limbs, no       *)
(* leading (most significant) zero limb; zero is the empty sequence.       *)
(***************************************************************************)
RECURSIVE IntBitLen(_)
IntBitLen(n) == IF n = 0 THEN 0 ELSE 1 + IntBitLen(n \div 2)

Base == 2 ^ 15
LimbBits == IntBitLen(Base) - 1

RECURSIVE BNorm(_)
BNorm(a) ==
    IF a = << >> THEN << >>
    ELSE IF a[Len(a)] = 0 THEN BNorm(SubSeq(a, 1, Len(a) - 1))
    ELSE a

RECURSIVE BFromInt(_)
BFromInt(n) == IF n = 0 THEN << >> ELSE <<n % Base>> \o BFromInt(n \div Base)

Limb(a, i) == IF i >= 1 /\ i <= Len(a) THEN a[i] ELSE 0

RECURSIVE BAddFrom(_, _, _, _)
BAddFrom(a, b, i, carry) ==
    IF i > Len(a) /\ i > Len(b)
    THEN (IF carry = 0 THEN << >> ELSE <<carry>>)
    ELSE LET s == Limb(a, i) + Limb(b, i) + carry
         IN  <<s % Base>> \o BAddFrom(a, b, i + 1, s \div Base)

BAdd(a, b) == BAddFrom(a, b, 1, 0)

\* a - b for a >= b
RECURSIVE BSubFrom(_, _, _, _)
BSubFrom(a, b, i, borrow) ==
    IF i > Len(a) THEN << >>
    ELSE LET d == Limb(a, i) - Limb(b, i) - borrow
         IN  IF d < 0 THEN <<d + Base>> \o BSubFrom(a, b, i + 1, 1)
             ELSE <<d>> \o BSubFrom(a, b, i + 1, 0)

BSub(a, b) == BNorm(BSubFrom(a, b, 1, 0))

\* -1, 0, 1 as a < b, a = b, a > b
RECURSIVE BCmpFrom(_, _, _)
BCmpFrom(a, b, i) ==
    IF i = 0 THEN 0
    ELSE IF a[i] < b[i] THEN -1
    ELSE IF a[i] > b[i] THEN 1
    ELSE BCmpFrom(a, b, i - 1)

BCmp(a, b) ==
    IF Len(a) < Len(b) THEN -1
    ELSE IF Len(a) > Len(b) THEN 1
    ELSE BCmpFrom(a, b, Len(a))

\* a * k for 0 <= k < Base
RECURSIVE BMulFrom(_, _, _, _)
BMulFrom(a, k, i, carry) ==
    IF i > Len(a)
    THEN (IF carry = 0 THEN << >> ELSE <<carry>>)
    ELSE LET s == a[i] * k + carry
         IN  <<s % Base>> \o BMulFrom(a, k, i + 1, s \div Base)

BMulSmall(a, k) == BNorm(BMulFrom(a, k, 1, 0))

\* quotient and remainder of a by d, 0 < d < Base
BDivDigit(rest, digit) == [q |-> rest.q \o <<digit>>, r |-> rest.r]

RECURSIVE BDivFrom(_, _, _, _)
BDivFrom(a, d, i, rem) ==
    IF i = 0 THEN [q |-> << >>, r |-> rem]
    ELSE BDivDigit(BDivFrom(a, d, i - 1, (rem * Base + a[i]) % d),
                   (rem * Base + a[i]) \div d)

BDivNorm(res) == [q |-> BNorm(res.q), r |-> res.r]

BDivMod(a, d) == BDivNorm(BDivFrom(a, d, Len(a), 0))

RECURSIVE Zeros(_)
Zeros(n) == IF n = 0 THEN << >> ELSE <<0>> \o Zeros(n - 1)

\* a * 2^n
BShl(a, n) ==
    IF a = << >> THEN << >>
    ELSE Zeros(n \div LimbBits) \o BMulSmall(a, 2 ^ (n % LimbBits))

\* floor(a / 2^n)
BShr(a, n) ==
    LET k == n \div LimbBits
    IN  IF k >= Len(a) THEN << >>
        ELSE BDivMod(SubSeq(a, k + 1, Len(a)), 2 ^ (n % LimbBits)).q

BitLen(a) ==
    IF a = << >> THEN 0
    ELSE LimbBits * (Len(a) - 1) + IntBitLen(a[Len(a)])

BOdd(a) == a # << >> /\ a[1] % 2 = 1

(***************************************************************************)
(* float64.  A value is [neg, m, e] with m a 53-bit natural number         *)
(* (2^52 <= m < 2^53) and value (-1)^neg * m * 2^e; zero is the value with *)
(* the empty mantissa.  The representation is unique, so equality of       *)
(* values is Go's == on float64.  Every cost of the model is far from the  *)
(* subnormal and overflow ranges, which are not represented.               *)
(***************************************************************************)
MantBits == 52 + 1

FZero == [neg |-> FALSE, m |-> << >>, e |-> 0]

\* x * 2^e (plus a positive residue below one unit of x when sticky) rounded
\* to nearest, ties to even.  A sticky x has more than MantBits + 1 bits.
\* The steps, last first: r is the rounded mantissa, which may have one bit
\* too many; q is x without its s lowest bits, q2 keeps one of them (the
\* round bit), lost says that a lower bit or the residue is not zero.
FRoundCarry(neg, e, s, r) ==
    IF BitLen(r) > MantBits
    THEN [neg |-> neg, m |-> BShr(r, 1), e |-> e + s + 1]
    ELSE [neg |-> neg, m |-> r, e |-> e + s]

FRoundUp(neg, e, s, q2, lost, q) ==
    FRoundCarry(neg, e, s,
                IF BOdd(q2) /\ (lost \/ BOdd(q)) THEN BAdd(q, <<1>>) ELSE q)

FRoundBits(neg, x, e, sticky, s, q2) ==
    FRoundUp(neg, e, s, q2, sticky \/ BShl(q2, s - 1) # x, BShr(q2, 1))

FRoundLen(neg, x, e, sticky, len) ==
    IF len <= MantBits
    THEN [neg |-> neg, m |-> BShl(x, MantBits - len), e |-> e - (MantBits - len)]
    ELSE FRoundBits(neg, x, e, sticky, len - MantBits,
                    BShr(x, len - MantBits - 1))

FRound(neg, x, e, sticky) ==
    IF x = << >> THEN FZero ELSE FRoundLen(neg, x, e, sticky, BitLen(x))

Abs(n) == IF n < 0 THEN -n ELSE n

\* float64(n) for an int n
FFromInt(n) == FRound(n < 0, BFromInt(Abs(n)), 0, FALSE)

\* float64(k) * p, |k| < Base
FMulInt(k, p) ==
    IF k = 0 \/ p.m = << >> THEN FZero
    ELSE FRound((k < 0) # p.neg, BMulSmall(p.m, Abs(k)), p.e, FALSE)

RECURSIVE OddPart(_)
OddPart(d) == IF d % 2 = 0 THEN OddPart(d \div 2) ELSE d

RECURSIVE TwoPart(_)
TwoPart(d) == IF d % 2 = 0 THEN 1 + TwoPart(d \div 2) ELSE 0

\* x / float64(d) for an int d > 0 whose odd part is below Base; qr is the
\* quotient and remainder of the shifted mantissa by the odd part
FDivRound(x, d, qr) ==
    FRound(x.neg, qr.q, x.e - (LimbBits + 2) - TwoPart(d), qr.r # 0)

FDivInt(x, d) ==
    IF x.m = << >> THEN FZero
    ELSE FDivRound(x, d, BDivMod(BShl(x.m, LimbBits + 2), OddPart(d)))

\* a + b, for the mantissas am and bm of a and b at the common exponent e
FAddAligned(a, b, e, am, bm, c) ==
    IF a.neg # b.neg /\ c = 0 THEN FZero
    ELSE FRound(IF a.neg = b.neg \/ c > 0 THEN a.neg ELSE b.neg,
                IF a.neg = b.neg THEN BAdd(am, bm)
                ELSE IF c > 0 THEN BSub(am, bm) ELSE BSub(bm, am),
                e, FALSE)

FAddAt(a, b, e) ==
    FAddAligned(a, b, e, BShl(a.m, a.e - e), BShl(b.m, b.e - e),
                BCmp(BShl(a.m, a.e - e), BShl(b.m, b.e - e)))

\* a + b
FAdd(a, b) ==
    IF a.m = << >> THEN b
    ELSE IF b.m = << >> THEN a
    ELSE FAddAt(a, b, IF a.e < b.e THEN a.e ELSE b.e)

FNeg(x) == IF x.m = << >> THEN x ELSE [x EXCEPT !.neg = ~x.neg]

\* a < b
FPositive(x) == x.m # << >> /\ ~x.neg

FLess(a, b) == FPositive(FAdd(b, FNeg(a)))

\* x >= 0
FNonNeg(x) == ~x.neg

(***************************************************************************)
(* State.                                                                  *)
(***************************************************************************)
VARIABLES
    pricingStore,   \* [models, aliases, fallback]: the runtime pricing tables
    requests,       \* Tracker.requests
    nextID,         \* Tracker.nextID
    OnRecord,       \* whether Tracker.OnRecord is installed (headless mode)
    mu,             \* Tracker.mu: 0 when no goroutine holds it for writing,
                    \* else the goroutine holding it
    readers,        \* Tracker.mu: the number of goroutines holding it for
                    \* reading
    recent,         \* the rows of the dashboard's request table: what
                    \* GetRecentRequests returned last
    snap,           \* the slices GetRequests returned to the dashboard's
                    \* export, the last two of them, each with the number of
                    \* Clears before the call
    tpc,            \* per goroutine calling Record: where it is in Record
    arg,            \* per goroutine calling Record: the Request it passed
    cpc,            \* where the goroutine calling Clear is
    observed,       \* history: the ids OnRecord was invoked with, in order
    assigned,       \* history: every id Record assigned, with the number of
                    \* Clears before it, in order of assignment
    epoch,          \* history: the number of Clears so far
    hpc,            \* where the process is: "boot" before the pricing config
                    \* is applied, "idle" while serving with no exchange, then
                    \* the handler's position in the exchange, "done" after it,
                    \* "exit" when the process has ended
    hreq,           \* the client's request of the exchange
    upreq,          \* the body of the request sent to the upstream (Nil:
                    \* no request was sent)
    upheader,       \* upReq.Header: the header of that request
    ctx,            \* which contexts are done: the server's (the ctx of
                    \* Server.Start) and the request's (r.Context())
    resp,           \* what s.client.Do returned
    buf,            \* bytes read from resp.Body and not yet consumed
    received,       \* history: all bytes read from resp.Body
    nread,          \* history: the number of Reads that returned bytes
    upend,          \* resp.Body: "open", or how it ended ("eof", "err")
    loc,            \* the locals of the streaming loops
    cstatus,        \* the status written to the client (0: none yet)
    wheader,        \* w.Header() as it was when the status was written
    cbody,          \* the body bytes written to the client
    nrec,           \* history: the Record calls of the exchange
    pmu,            \* pricingStore.mu: whether a goroutine holds it for
                    \* writing, and how many hold it for reading
    apply,          \* the goroutine calling ApplyPricing: where it is, the
                    \* arguments of the call and the entries of models its
                    \* range has yet to visit
    lookup,         \* per goroutine calling GetPricing: where it is, the
                    \* model it asked for, the number of ApplyPricing calls
                    \* that had returned when it began and the pricing it got
    applied         \* history: the built-in store, then per return of
                    \* ApplyPricing the arguments of the call and the store
                    \* it left

\* the variables of the ledger's callers
tvars == <<mu, readers, recent, snap, tpc, arg, cpc>>

\* the variables of the exchange
hvars ==
    <<hpc, hreq, upreq, upheader, ctx, resp, buf, received, nread, upend, loc,
      cstatus, wheader, cbody, nrec>>

\* the variables of the callers of ApplyPricing and GetPricing
pvars == <<pmu, apply, lookup, applied>>

(***************************************************************************)
(* Bounds of the model.                                                    *)
(***************************************************************************)
NumCallers == 3     \* goroutines (exchanges) calling Record, once each
MaxClears == 1      \* Clear calls in one behaviour of the ledger
NumReaders == 1     \* goroutines reading the ledger at a time
MaxRecords == 3     \* records held by the ledger the dashboard reads
MaxTok == 2         \* the largest token count of a usage block
MaxReads == 2       \* Reads of resp.Body that return bytes, in Spec
MaxBytes == 4       \* bytes of the upstream's body, in SpecNative
MaxFrames == 4      \* events of the upstream's stream, in SpecChat
MaxApplies == 2     \* ApplyPricing calls in one behaviour of SpecPricing
NumLookups == 1     \* goroutines calling GetPricing, in SpecPricing

Callers == 1 .. NumCallers
TUI == NumCallers + 1    \* the goroutine of the dashboard, which calls Clear

(***************************************************************************)
(* Pricing (package tracker, pricing.go).                                  *)
(***************************************************************************)
Million == 1000000

\* The float64 a decimal literal with two decimals denotes, from its value
\* in hundredths: 3.75 is Dec(375).
Dec(hundredths) == FDivInt(FFromInt(hundredths), 100)

Pricing(in, out, cr, cw) ==
    [InputPerMTok |-> Dec(in), OutputPerMTok |-> Dec(out),
     CacheReadPerMTok |-> Dec(cr), CacheWritePerMTok |-> Dec(cw)]

SonnetTier == Pricing(300, 1500, 30, 375)
OpusTier   == Pricing(1500, 7500, 150, 1875)
HaikuTier  == Pricing(80, 400, 8, 100)

BuiltinModels ==
    [n \in {"claude-sonnet-4-20250514", "claude-opus-4-20250514",
            "claude-3-7-sonnet-20250219", "claude-3-5-sonnet-20241022",
            "claude-3-5-haiku-20241022", "claude-3-opus-20240229"} |->
        CASE n = "claude-sonnet-4-20250514"   -> SonnetTier
          [] n = "claude-opus-4-20250514"     -> OpusTier
          [] n = "claude-3-7-sonnet-20250219" -> SonnetTier
          [] n = "claude-3-5-sonnet-20241022" -> SonnetTier
          [] n = "claude-3-5-haiku-20241022"  -> HaikuTier
          [] n = "claude-3-opus-20240229"     -> OpusTier]

BuiltinAliases ==
    [a \in {"claude-sonnet-4", "claude-opus-4", "claude-3-7-sonnet",
            "claude-3-5-sonnet", "claude-3-5-haiku", "claude-3-opus"} |->
        CASE a = "claude-sonnet-4"   -> "claude-sonnet-4-20250514"
          [] a = "claude-opus-4"     -> "claude-opus-4-20250514"
          [] a = "claude-3-7-sonnet" -> "claude-3-7-sonnet-20250219"
          [] a = "claude-3-5-sonnet" -> "claude-3-5-sonnet-20241022"
          [] a = "claude-3-5-haiku"  -> "claude-3-5-haiku-20241022"
          [] a = "claude-3-opus"     -> "claude-3-opus-20240229"]

BuiltinStore ==
    [models |-> BuiltinModels, aliases |-> BuiltinAliases, fallback |-> SonnetTier]

\* strings.HasPrefix
HasPrefix(s, prefix) ==
    Len(prefix) <= Len(s) /\ SubSeq(s, 1, Len(prefix)) = prefix

\* GetPricingIn without the exact match of an alias (a variant to test the
\* order of the resolution against)
GetPricingNoExactAlias(store, model) ==
    LET models  == store.models
        aliases == store.aliases
        hits    == {a \in DOMAIN aliases :
                       HasPrefix(model, a) /\ aliases[a] \in DOMAIN models}
    IN  IF model \in DOMAIN models THEN {models[model]}
        ELSE IF hits # {} THEN {models[aliases[a]] : a \in hits}
        ELSE {store.fallback}

\* The entries a call GetPricing(model) can return when pricingStore is store.  The third step ranges
\* over a Go map, whose iteration order is not fixed: when several aliases are
\* prefixes of the model, any of them can be the first hit.
GetPricingIn(store, model) ==
    LET models  == store.models
        aliases == store.aliases
        hits    == {a \in DOMAIN aliases :
                       HasPrefix(model, a) /\ aliases[a] \in DOMAIN models}
    IN  IF model \in DOMAIN models THEN {models[model]}
        ELSE IF model \in DOMAIN aliases /\ aliases[model] \in DOMAIN models
        THEN {models[aliases[model]]}
        ELSE IF hits # {} THEN {models[aliases[a]] : a \in hits}
        ELSE {store.fallback}

GetPricing(model) == GetPricingIn(pricingStore, model)

\* one statement of CalculateCost: cost += float64(tokens) * price / 1_000_000,
\* for each pair <<tokens, price>> of terms in turn; cost starts as the first
\* quotient
RECURSIVE CostSum(_)
CostSum(terms) ==
    IF Len(terms) = 1
    THEN FDivInt(FMulInt(terms[1][1], terms[1][2]), Million)
    ELSE FAdd(CostSum(SubSeq(terms, 1, Len(terms) - 1)),
              FDivInt(FMulInt(terms[Len(terms)][1], terms[Len(terms)][2]),
                      Million))

\* CalculateCost with the entry p that GetPricing returned
CostAt(p, inputTokens, outputTokens, cacheRead, cacheWrite) ==
    CostSum(<<<<inputTokens, p.InputPerMTok>>, <<outputTokens, p.OutputPerMTok>>,
              <<cacheRead, p.CacheReadPerMTok>>,
              <<cacheWrite, p.CacheWritePerMTok>>>>)

\* The values a call CalculateCost(model, ...) can return
CalculateCost(model, inputTokens, outputTokens, cacheRead, cacheWrite) ==
    {CostAt(p, inputTokens, outputTokens, cacheRead, cacheWrite) :
        p \in GetPricing(model)}

(***************************************************************************)
(* The usage ledger (package tracker, tracker.go).                         *)
(***************************************************************************)
\* tracker.Request; Timestamp and Latency, which read the clock, are left out
Request(model, inputTokens, outputTokens, cacheRead, cacheWrite, cost, statusCode, err) ==
    [ID |-> 0, Model |-> model, InputTokens |-> inputTokens,
     OutputTokens |-> outputTokens, CacheRead |-> cacheRead,
     CacheWrite |-> cacheWrite, Cost |-> cost, StatusCode |-> statusCode,
     Error |-> err]

NoRequest == Request("", 0, 0, 0, 0, FZero, 0, "")

\* Tracker.GetRequests: a copy of the records, in insertion order
GetRequests == requests

\* Tracker.GetSummary
RECURSIVE SummaryOf(_)
SummaryOf(reqs) ==
    IF reqs = << >>
    THEN [TotalCost |-> FZero, TotalRequests |-> 0, TotalInput |-> 0,
          TotalOutput |-> 0, TotalCacheR |-> 0, TotalCacheW |-> 0]
    ELSE LET s == SummaryOf(SubSeq(reqs, 1, Len(reqs) - 1))
             r == reqs[Len(reqs)]
         IN  [TotalCost     |-> FAdd(s.TotalCost, r.Cost),
              TotalRequests |-> s.TotalRequests + 1,
              TotalInput    |-> s.TotalInput + r.InputTokens,
              TotalOutput   |-> s.TotalOutput + r.OutputTokens,
              TotalCacheR   |-> s.TotalCacheR + r.CacheRead,
              TotalCacheW   |-> s.TotalCacheW + r.CacheWrite]

GetSummary == SummaryOf(requests)

\* byModel when every record starts a fresh entry (a variant to test the
\* agreement of the statistics against)
RECURSIVE ByModelOverwrite(_)
ByModelOverwrite(reqs) ==
    IF reqs = << >> THEN << >>
    ELSE LET prev == ByModelOverwrite(SubSeq(reqs, 1, Len(reqs) - 1))
             r    == reqs[Len(reqs)]
             t    == [Model        |-> r.Model,
                      Requests     |-> 1,
                      InputTokens  |-> r.InputTokens,
                      OutputTokens |-> r.OutputTokens,
                      CacheRead    |-> r.CacheRead,
                      CacheWrite   |-> r.CacheWrite,
                      TotalCost    |-> FAdd(FZero, r.Cost)]
         IN  [m \in DOMAIN prev \cup {r.Model} |-> IF m = r.Model THEN t ELSE prev[m]]

\* The map byModel of Tracker.GetModelStats after its loop over reqs
RECURSIVE ByModel(_)
ByModel(reqs) ==
    IF reqs = << >> THEN << >>
    ELSE LET prev == ByModel(SubSeq(reqs, 1, Len(reqs) - 1))
             r    == reqs[Len(reqs)]
             s    == IF r.Model \in DOMAIN prev THEN prev[r.Model]
                     ELSE [Model |-> r.Model, Requests |-> 0, InputTokens |-> 0,
                           OutputTokens |-> 0, CacheRead |-> 0, CacheWrite |-> 0,
                           TotalCost |-> FZero]
             t    == [Model        |-> s.Model,
                      Requests     |-> s.Requests + 1,
                      InputTokens  |-> s.InputTokens + r.InputTokens,
                      OutputTokens |-> s.OutputTokens + r.OutputTokens,
                      CacheRead    |-> s.CacheRead + r.CacheRead,
                      CacheWrite   |-> s.CacheWrite + r.CacheWrite,
                      TotalCost    |-> FAdd(s.TotalCost, r.Cost)]
         IN  [m \in DOMAIN prev \cup {r.Model} |-> IF m = r.Model THEN t ELSE prev[m]]

\* The slices Tracker.GetModelStats can return: the entries of byModel in an
\* order sort.Slice can leave them in (descending total cost, ties in any
\* order).
GetModelStats ==
    LET by == ByModel(requests)
        n  == Cardinality(DOMAIN by)
    IN  {st \in [1 .. n -> {by[m] : m \in DOMAIN by}] :
            /\ \A i, j \in 1 .. n : i # j => st[i] # st[j]
            /\ \A i, j \in 1 .. n : i < j => ~FLess(st[i].TotalCost, st[j].TotalCost)}

\* Insert putting the record before the others (a variant to test the order
\* of the ledger against)
InsertNewestFirst(r) ==
    /\ nextID' = nextID + 1
    /\ requests' = <<[r EXCEPT !.ID = nextID + 1]>> \o requests
    /\ assigned' = Append(assigned, [id |-> nextID + 1, epoch |-> epoch])

\* Insert without t.nextID++ (a variant to test the id properties against)
InsertSameID(r) ==
    /\ nextID' = nextID
    /\ requests' = Append(requests, [r EXCEPT !.ID = nextID + 1])
    /\ assigned' = Append(assigned, [id |-> nextID + 1, epoch |-> epoch])

\* Tracker.Record, the critical section: t.nextID++; r.ID = t.nextID;
\* t.requests = append(t.requests, r)
Insert(r) ==
    /\ nextID' = nextID + 1
    /\ requests' = Append(requests, [r EXCEPT !.ID = nextID + 1])
    /\ assigned' = Append(assigned, [id |-> nextID + 1, epoch |-> epoch])

\* A goroutine calls Record(r).  Goroutines are numbered in the order of their
\* calls.
CallRecord(c, r) ==
    /\ tpc[c] = "idle"
    /\ \A d \in Callers : d < c => tpc[d] # "idle"
    /\ tpc' = [tpc EXCEPT ![c] = "lock"]
    /\ arg' = [arg EXCEPT ![c] = r]
    /\ UNCHANGED <<pricingStore, requests, nextID, OnRecord, mu, cpc, observed, assigned, epoch, readers, recent,
                 hvars, snap, pvars>>

\* RecordLock going on to the callback with nothing inserted (a variant to
\* test the observer's contract against)
RecordLockSkipsInsert(c) ==
    /\ tpc[c] = "lock"
    /\ mu = 0 /\ readers = 0
    /\ mu' = IF OnRecord THEN mu ELSE c
    /\ tpc' = [tpc EXCEPT ![c] = IF OnRecord THEN "cb" ELSE "held"]
    /\ UNCHANGED <<pricingStore, requests, nextID, OnRecord, arg, cpc, observed, assigned, epoch, readers, recent,
                 hvars, snap, pvars>>

\* t.mu.Lock()
RecordLock(c) ==
    /\ tpc[c] = "lock"
    /\ mu = 0 /\ readers = 0
    /\ mu' = c
    /\ tpc' = [tpc EXCEPT ![c] = "held"]
    /\ UNCHANGED <<pricingStore, requests, nextID, OnRecord, arg, cpc, observed, assigned, epoch, readers, recent,
                 hvars, snap, pvars>>

\* RecordInsert appending to the slice as it was before the last insertion,
\* whose record it replaces (a variant to test the insertions against)
RecordInsertLosesLast(c) ==
    /\ tpc[c] = "held"
    /\ mu = c
    /\ nextID' = nextID + 1
    /\ requests' = Append(SubSeq(requests, 1, Len(requests) - 1),
                          [arg[c] EXCEPT !.ID = nextID + 1])
    /\ assigned' = Append(assigned, [id |-> nextID + 1, epoch |-> epoch])
    /\ arg' = [arg EXCEPT ![c] = [@ EXCEPT !.ID = nextID + 1]]
    /\ mu' = 0
    /\ tpc' = [tpc EXCEPT ![c] = IF OnRecord THEN "cb" ELSE "done"]
    /\ UNCHANGED <<pricingStore, OnRecord, cpc, observed, epoch, readers, recent,
                 hvars, snap, pvars>>

\* RecordInsert without t.mu.Unlock() before the callback (a variant to test
\* the observer's contract against)
RecordInsertKeepsLock(c) ==
    /\ tpc[c] = "held"
    /\ mu = c
    /\ Insert(arg[c])
    /\ arg' = [arg EXCEPT ![c] = [@ EXCEPT !.ID = nextID + 1]]
    /\ mu' = mu
    /\ tpc' = [tpc EXCEPT ![c] = IF OnRecord THEN "cb" ELSE "done"]
    /\ UNCHANGED <<pricingStore, OnRecord, cpc, observed, epoch, readers, recent,
                 hvars, snap, pvars>>

\* the critical section, cb := t.OnRecord and t.mu.Unlock()
RecordInsert(c) ==
    /\ tpc[c] = "held"
    /\ mu = c
    /\ Insert(arg[c])
    /\ arg' = [arg EXCEPT ![c] = [@ EXCEPT !.ID = nextID + 1]]
    /\ mu' = 0
    /\ tpc' = [tpc EXCEPT ![c] = IF OnRecord THEN "cb" ELSE "done"]
    /\ UNCHANGED <<pricingStore, OnRecord, cpc, observed, epoch, readers, recent,
                 hvars, snap, pvars>>

\* if cb != nil { cb(r) }
RecordCallback(c) ==
    /\ tpc[c] = "cb"
    /\ observed' = Append(observed, arg[c].ID)
    /\ tpc' = [tpc EXCEPT ![c] = "done"]
    /\ UNCHANGED <<pricingStore, requests, nextID, OnRecord, mu, arg, cpc, assigned, epoch, readers, recent,
                 hvars, snap, pvars>>

\* Tracker.Clear: t.mu.Lock()
ClearLock ==
    /\ cpc = "idle"
    /\ epoch < MaxClears
    /\ mu = 0 /\ readers = 0
    /\ mu' = TUI
    /\ cpc' = "held"
    /\ UNCHANGED <<pricingStore, requests, nextID, OnRecord, tpc, arg, observed, assigned, epoch, readers, recent,
                 hvars, snap, pvars>>

\* Clear without t.nextID = 0 (a variant to test the id properties against)
ClearBodyKeepsNextID ==
    /\ cpc = "held"
    /\ mu = TUI
    /\ requests' = << >>
    /\ nextID' = nextID
    /\ mu' = 0
    /\ cpc' = "idle"
    /\ epoch' = epoch + 1
    /\ UNCHANGED <<pricingStore, OnRecord, tpc, arg, observed, assigned, readers, recent,
                 hvars, snap, pvars>>

\* Tracker.Clear: the body and the deferred Unlock
ClearBody ==
    /\ cpc = "held"
    /\ mu = TUI
    /\ requests' = << >>
    /\ nextID' = 0
    /\ mu' = 0
    /\ cpc' = "idle"
    /\ epoch' = epoch + 1
    /\ UNCHANGED <<pricingStore, OnRecord, tpc, arg, observed, assigned, readers, recent,
                 hvars, snap, pvars>>

\* Tracker.Record(r) called while no other goroutine is in the ledger: the
\* critical section, then the callback
Record(r) ==
    /\ mu = 0 /\ readers = 0
    /\ Insert(r)
    /\ observed' = IF OnRecord THEN Append(observed, nextID + 1) ELSE observed
    /\ UNCHANGED <<pricingStore, OnRecord, epoch, tvars, pvars>>

\* Tracker.Clear called while no other goroutine is in the ledger
Clear ==
    /\ mu = 0 /\ readers = 0
    /\ epoch < MaxClears
    /\ requests' = << >>
    /\ nextID' = 0
    /\ epoch' = epoch + 1
    /\ UNCHANGED <<pricingStore, OnRecord, observed, assigned, tvars, pvars>>

\* GetRecentRequests returning the first n records, oldest first (a variant
\* to test the order of the rows against)
GetRecentRequestsOldestFirst(n) ==
    [i \in 1 .. (IF n > Len(requests) THEN Len(requests) ELSE n) |-> requests[i]]

\* Tracker.GetRecentRequests(n): out[i] = t.requests[total-1-i] for i from 0
\* to n - 1, with n lowered to total
GetRecentRequests(n) ==
    LET total == Len(requests)
        k     == IF n > total THEN total ELSE n
    IN  [i \in 1 .. k |-> requests[total - (i - 1)]]

\* A read of the ledger by a goroutine other than the dashboard's, as
\* GetRequests of the export: t.mu.RLock()
ReadLock ==
    /\ mu = 0
    /\ readers < NumReaders
    /\ readers' = readers + 1
    /\ UNCHANGED <<pricingStore, requests, nextID, OnRecord, mu, recent, tpc,
                   arg, cpc, observed, assigned, epoch, hvars, snap, pvars>>

\* the copy is made and handed to the caller; the deferred t.mu.RUnlock()
ReadUnlock ==
    /\ readers > 0
    /\ readers' = readers - 1
    /\ UNCHANGED <<pricingStore, requests, nextID, OnRecord, mu, recent, tpc,
                   arg, cpc, observed, assigned, epoch, hvars, snap, pvars>>

\* The dashboard fills its request table: recent :=
\* a.tracker.GetRecentRequests(n), called while no other goroutine is in the
\* ledger
Recent(n) ==
    /\ mu = 0
    /\ recent' = GetRecentRequests(n)
    /\ UNCHANGED <<pricingStore, requests, nextID, OnRecord, mu, readers, tpc,
                   arg, cpc, observed, assigned, epoch, snap, pvars>>

\* the slices of snaps the dashboard still holds: the last two
LastTwo(snaps) ==
    IF Len(snaps) > 2 THEN SubSeq(snaps, Len(snaps) - 1, Len(snaps)) ELSE snaps

\* App.export: requests := a.tracker.GetRequests(), called while no goroutine
\* holds t.mu for writing: out := make([]Request, len(t.requests));
\* copy(out, t.requests); return out
export ==
    /\ mu = 0
    /\ snap' = LastTwo(Append(snap, [out |-> GetRequests, epoch |-> epoch]))
    /\ UNCHANGED <<pricingStore, requests, nextID, OnRecord, mu, readers,
                   recent, tpc, arg, cpc, observed, assigned, epoch, hvars,
                   pvars>>

(***************************************************************************)
(* The records the handlers make.                                          *)
(***************************************************************************)
Usage(inputTokens, outputTokens, cacheRead, cacheWrite) ==
    [input_tokens |-> inputTokens, output_tokens |-> outputTokens,
     cache_read_input_tokens |-> cacheRead,
     cache_creation_input_tokens |-> cacheWrite]

\* UsageRecords with the cache counters exchanged in the call of
\* CalculateCost (a variant to test the cost property against)
UsageRecordsSwapped(model, u, statusCode) ==
    {Request(model, u.input_tokens, u.output_tokens, u.cache_read_input_tokens,
             u.cache_creation_input_tokens, cost, statusCode, "") :
        cost \in CalculateCost(model, u.input_tokens, u.output_tokens,
                               u.cache_creation_input_tokens,
                               u.cache_read_input_tokens)}

\* The requests a handler can pass to Record after a response with usage u:
\* cost := tracker.CalculateCost(model, input, output, cacheRead, cacheCreation)
UsageRecords(model, u, statusCode) ==
    {Request(model, u.input_tokens, u.output_tokens, u.cache_read_input_tokens,
             u.cache_creation_input_tokens, cost, statusCode, "") :
        cost \in CalculateCost(model, u.input_tokens, u.output_tokens,
                               u.cache_read_input_tokens,
                               u.cache_creation_input_tokens)}

\* Server.recordError: Timestamp, Model, Latency and Error are set
ErrorRecord(model, err) == Request(model, 0, 0, 0, 0, FZero, 0, err)

(***************************************************************************)
(* The ledger under concurrent callers: goroutines call Record with        *)
(* records the handlers make, and the dashboard calls Clear.               *)
(***************************************************************************)
SampleUsages ==
    {<<"claude-sonnet-4", Usage(1, 0, 0, 0)>>}
    \cup {<<"claude-3-5-haiku-20241022", Usage(i, 0, 0, 0)>> : i \in 1 .. MaxTok}

\* With the built-in tables every model has one entry, so one cost.
SampleRequests ==
    UNION {{Request(s[1], s[2].input_tokens, 0, 0, 0,
                    CostAt(p, s[2].input_tokens, 0, 0, 0), 200, "") :
               p \in GetPricingIn(BuiltinStore, s[1])} : s \in SampleUsages}

vars ==
    <<pricingStore, requests, nextID, OnRecord, mu, readers, recent, snap, tpc,
      arg, cpc, observed, assigned, epoch, hvars, pvars>>

NoReq ==
    [method |-> "", path |-> "", header |-> << >>, valid |-> FALSE,
     model |-> "", stream |-> FALSE, flusher |-> FALSE, messages |-> << >>,
     max_tokens |-> [null |-> TRUE]]

NoResp == [err |-> "", StatusCode |-> 0, Header |-> << >>, ct |-> ""]

\* neither the context of Server.Start nor r.Context() is done
LiveCtx == [server |-> FALSE, request |-> FALSE]

\* var inputTokens, outputTokens, cacheRead, cacheWrite int; msgID string;
\* sentRole bool
ZeroLoc ==
    [inputTokens |-> 0, outputTokens |-> 0, cacheRead |-> 0, cacheWrite |-> 0,
     msgID |-> "", sentRole |-> FALSE]

\* no exchange has begun
NoExchange(pc) ==
    /\ hpc = pc
    /\ hreq = NoReq
    /\ upreq = [null |-> TRUE]
    /\ upheader = << >>
    /\ ctx = LiveCtx
    /\ resp = NoResp
    /\ buf = << >>
    /\ received = << >>
    /\ nread = 0
    /\ upend = "open"
    /\ loc = ZeroLoc
    /\ cstatus = 0
    /\ wheader = << >>
    /\ cbody = << >>
    /\ nrec = 0

\* no goroutine has called ApplyPricing or GetPricing: the store is the
\* built-in one
NoPricingCall ==
    /\ pmu = [writer |-> FALSE, readers |-> 0]
    /\ apply = [pc |-> "idle", models |-> [null |-> TRUE],
                fallback |-> [null |-> TRUE], todo |-> {}]
    /\ lookup = [g \in 1 .. NumLookups |->
                    [pc |-> "idle", model |-> "", at |-> 0, p |-> [null |-> TRUE]]]
    /\ applied = <<[models |-> [null |-> TRUE], fallback |-> [null |-> TRUE],
                    store |-> BuiltinStore]>>

InitLedger ==
    /\ NoExchange("idle")
    /\ NoPricingCall
    /\ snap = << >>
    /\ pricingStore = BuiltinStore
    /\ requests = << >>
    /\ nextID = 0
    /\ OnRecord \in BOOLEAN
    /\ mu = 0
    /\ readers = 0
    /\ recent = << >>
    /\ tpc = [c \in Callers |-> "idle"]
    /\ arg = [c \in Callers |-> NoRequest]
    /\ cpc = "idle"
    /\ observed = << >>
    /\ assigned = << >>
    /\ epoch = 0

\* one record of each sample model
LedgerSamples == {r \in SampleRequests : r.InputTokens = 1}

NextLedger ==
    \/ \E c \in Callers, r \in LedgerSamples : CallRecord(c, r)
    \/ \E c \in Callers : RecordLock(c)
    \/ \E c \in Callers : RecordInsert(c)
    \/ \E c \in Callers : RecordCallback(c)
    \/ ClearLock
    \/ ClearBody
    \/ ReadLock
    \/ ReadUnlock

SpecLedger == InitLedger /\ [][NextLedger]_vars

\* C1: in every state of the ledger under concurrent Record and Clear calls,
\* the records held, read in insertion order, have the ids 1, 2, ..., n, and
\* the next id to assign is n + 1 (so the first Record after a Clear gets 1).
C1_IdsAreOneToN ==
    /\ \A i \in 1 .. Len(requests) : requests[i].ID = i
    /\ nextID = Len(requests)

\* A Clear has run between Records: one id was assigned before it and two
\* records were inserted after it.
C1_Witness ==
    /\ epoch = 1
    /\ Len(requests) = 2
    /\ \E i \in 1 .. Len(assigned) : assigned[i].epoch = 0

\* C2, as claimed: over the whole lifetime of the ledger every id assigned is
\* greater than every id assigned before it, so no id is assigned twice.
C2_IdsNeverRepeat ==
    \A i, j \in 1 .. Len(assigned) : i < j => assigned[i].id < assigned[j].id

\* C2, amended: among the ids assigned with no Clear between them, every id
\* is greater than every id assigned before it.
C2_IdsIncreaseBetweenClears ==
    \A i, j \in 1 .. Len(assigned) :
        (i < j /\ assigned[i].epoch = assigned[j].epoch)
            => assigned[i].id < assigned[j].id

\* Concurrent callers have had ids assigned before and after a Clear.
C2_Witness ==
    /\ Len(assigned) = NumCallers
    /\ assigned[1].epoch = 0
    /\ assigned[Len(assigned) - 1].epoch = 1
    /\ assigned[Len(assigned)].epoch = 1

(***************************************************************************)
(* The ledger as the dashboard reads it: records arrive one at a time, the *)
(* user clears the ledger, and every refresh reads GetSummary and          *)
(* GetModelStats.                                                          *)
(***************************************************************************)
StatsSamples ==
    SampleRequests \cup {ErrorRecord("claude-sonnet-4", "unexpected EOF")}

NextStats ==
    \/ \E r \in StatsSamples :
          Len(requests) < MaxRecords /\ Record(r) /\ UNCHANGED hvars
    \/ Clear /\ UNCHANGED hvars

SpecStats == InitLedger /\ [][NextStats]_vars

RECURSIVE SumSeq(_)
SumSeq(s) == IF s = << >> THEN 0 ELSE SumSeq(SubSeq(s, 1, Len(s) - 1)) + s[Len(s)]

\* the float64 sum of s, added from left to right
RECURSIVE FSumSeq(_)
FSumSeq(s) ==
    IF s = << >> THEN FZero
    ELSE FAdd(FSumSeq(SubSeq(s, 1, Len(s) - 1)), s[Len(s)])

ModelsOf(reqs) == {reqs[i].Model : i \in DOMAIN reqs}

RecordsOf(m) == SelectSeq(requests, LAMBDA r : r.Model = m)

\* one entry per distinct model, and the counts and token totals of the
\* entries of st add up to those of the summary
CountsAgree(st) ==
    /\ Len(st) = Cardinality(ModelsOf(requests))
    /\ {st[i].Model : i \in DOMAIN st} = ModelsOf(requests)
    /\ SumSeq([i \in DOMAIN st |-> st[i].Requests]) = GetSummary.TotalRequests
    /\ SumSeq([i \in DOMAIN st |-> st[i].InputTokens]) = GetSummary.TotalInput
    /\ SumSeq([i \in DOMAIN st |-> st[i].OutputTokens]) = GetSummary.TotalOutput
    /\ SumSeq([i \in DOMAIN st |-> st[i].CacheRead]) = GetSummary.TotalCacheR
    /\ SumSeq([i \in DOMAIN st |-> st[i].CacheWrite]) = GetSummary.TotalCacheW

\* the total costs of the entries of st, added in the order of st
CostOfEntries(st) == FSumSeq([i \in DOMAIN st |-> st[i].TotalCost])

\* C3, as claimed: in every ledger state, whatever slice GetModelStats
\* returns has one entry per distinct model, and the summary's request count,
\* four token totals and total cost equal the sums over the entries.
C3_StatsSumToSummary ==
    \A st \in GetModelStats :
        CountsAgree(st) /\ CostOfEntries(st) = GetSummary.TotalCost

\* C3, amended: one entry per distinct model; the request count and the four
\* token totals equal the sums over the entries; every entry's total cost is
\* the float64 sum of its model's record costs in insertion order, as the
\* summary's is over all records, so the two total costs are equal when the
\* records are of one model (and otherwise only up to rounding).
C3_StatsAgreeWithSummary ==
    \A st \in GetModelStats :
        /\ CountsAgree(st)
        /\ \A i \in DOMAIN st :
              /\ st[i].Requests = Len(RecordsOf(st[i].Model))
              /\ st[i].TotalCost = SummaryOf(RecordsOf(st[i].Model)).TotalCost
        /\ Len(st) <= 1 => CostOfEntries(st) = GetSummary.TotalCost

\* Records of two models are held and the sum of the entries' total costs
\* differs from the summary's total cost.
C3_Witness ==
    /\ Len(requests) = MaxRecords
    /\ Cardinality(ModelsOf(requests)) = 2
    /\ \E st \in GetModelStats : CostOfEntries(st) # GetSummary.TotalCost

(***************************************************************************)
(* Bodies.  A body is a sequence of atoms: a run of raw bytes holding no   *)
(* line feed, a single line feed or carriage return, or the text of one    *)
(* JSON document, given by the document.                                   *)
(***************************************************************************)
Raw(s) == [raw |-> s]
Json(doc) == [json |-> doc]
LF == Raw("\n")
CR == Raw("\r")

IsJson(a) == "json" \in DOMAIN a
IsSpace(a) == a = LF \/ a = CR

\* strings.Contains
Contains(s, sub) ==
    \E i \in 1 .. Len(s) - Len(sub) + 1 : SubSeq(s, i, i + Len(sub) - 1) = sub

\* dropCR of bufio: a trailing \r is dropped
dropCR(data) ==
    IF data # << >> /\ data[Len(data)] = CR
    THEN SubSeq(data, 1, Len(data) - 1) ELSE data

\* bytes.IndexByte(data, '\n'), counted from 1; 0 when there is none
IndexLF(data) ==
    IF \E i \in DOMAIN data : data[i] = LF
    THEN CHOOSE i \in DOMAIN data :
             data[i] = LF /\ \A j \in 1 .. i - 1 : data[j] # LF
    ELSE 0

\* bufio.ScanLines(data, atEOF): the bytes to advance by and the token, if
\* there is one; i is the index of the first line feed
ScanLinesAt(data, atEOF, i) ==
    IF atEOF /\ data = << >>
    THEN [advance |-> 0, ok |-> FALSE, token |-> << >>]
    ELSE IF i > 0
    THEN [advance |-> i, ok |-> TRUE, token |-> dropCR(SubSeq(data, 1, i - 1))]
    ELSE IF atEOF
    THEN [advance |-> Len(data), ok |-> TRUE, token |-> dropCR(data)]
    ELSE [advance |-> 0, ok |-> FALSE, token |-> << >>]

ScanLines(data, atEOF) == ScanLinesAt(data, atEOF, IndexLF(data))

\* scanner.Buffer(make([]byte, 0, 1024*1024), 1024*1024): the size of the
\* Scanner's buffer, which is the most a line and its line feed can take
MaxScanTokenSize == 1048576

\* a run of MaxScanTokenSize bytes, none of them a line feed; every other
\* atom is far shorter
Long == [long |-> MaxScanTokenSize]
IsLong(a) == "long" \in DOMAIN a

\* the JSON document doc written on a line of more than MaxScanTokenSize bytes
LongJson(doc) == [long |-> MaxScanTokenSize, json |-> doc]

\* The first line of data does not fit the Scanner's buffer: the buffer is
\* full and holds no line feed.  Scan then returns false, with the error
\* bufio.ErrTooLong.
Overflows(data) ==
    \E i \in DOMAIN data :
        IsLong(data[i]) /\ \A j \in 1 .. i - 1 : data[j] # LF

\* scanner.Scan() returns true: a line of data is whole, or the last line is
\* ended by the end of the body, and it fits the buffer
Scans(data, atEOF) == ~Overflows(data) /\ ScanLines(data, atEOF).ok

\* scanner.Scan() returns false: the body has ended and every line was
\* returned, or a line does not fit the buffer
ScanEnds(data, atEOF) == Overflows(data) \/ (atEOF /\ data = << >>)

\* strings.HasPrefix(line, prefix), for a prefix of raw bytes
LineHasPrefix(line, prefix) ==
    line # << >> /\ ~IsJson(line[1]) /\ HasPrefix(line[1].raw, prefix)

\* line[n:], when the first n bytes of the line are raw bytes of its first atom
SliceFrom(line, n) ==
    IF Len(line[1].raw) = n THEN Tail(line)
    ELSE <<Raw(SubSeq(line[1].raw, n + 1, Len(line[1].raw)))>> \o Tail(line)

\* b without leading and trailing white space
RECURSIVE TrimSpace(_)
TrimSpace(b) ==
    IF b = << >> THEN b
    ELSE IF IsSpace(b[1]) THEN TrimSpace(Tail(b))
    ELSE IF IsSpace(b[Len(b)]) THEN TrimSpace(SubSeq(b, 1, Len(b) - 1))
    ELSE b

\* json.Unmarshal(b, &v) for a struct v: it fails unless b is one JSON
\* document, with white space around it at most
Unmarshal(b) ==
    LET t == TrimSpace(b)
    IN  IF Len(t) = 1 /\ IsJson(t[1])
        THEN [ok |-> TRUE, doc |-> t[1].json]
        ELSE [ok |-> FALSE, doc |-> << >>]

\* the field k of the object d as Unmarshal stores it: a missing key leaves
\* the zero value
Get(d, k, zero) == IF k \in DOMAIN d THEN d[k] ELSE zero

\* the usage block of the object d, decoded into the four int fields
UsageOf(d) ==
    LET u == Get(d, "usage", << >>)
    IN  Usage(Get(u, "input_tokens", 0), Get(u, "output_tokens", 0),
              Get(u, "cache_read_input_tokens", 0),
              Get(u, "cache_creation_input_tokens", 0))

(***************************************************************************)
(* The proxy (package proxy): conversions and what the handlers write.     *)
(***************************************************************************)
\* a *string: nil, or a pointer to s
Nil == [null |-> TRUE]
Ptr(s) == [string |-> s]

\* mapStopReason with a default case that returns its argument (a variant to
\* test the range of the mapping against)
mapStopReasonPassesOthers(antReason) ==
    CASE antReason \in {"end_turn", "stop_sequence"} -> "stop"
      [] antReason = "max_tokens" -> "length"
      [] OTHER -> antReason

mapStopReason(antReason) ==
    CASE antReason \in {"end_turn", "stop_sequence"} -> "stop"
      [] antReason = "max_tokens" -> "length"
      [] OTHER -> "stop"

\* TextOf without the test of the block's type (a variant to test the
\* converted response against)
RECURSIVE TextOfAllBlocks(_)
TextOfAllBlocks(content) ==
    IF content = << >> THEN ""
    ELSE Get(content[1], "text", "") \o TextOfAllBlocks(Tail(content))

\* the text blocks of content, concatenated
RECURSIVE TextOf(_)
TextOf(content) ==
    IF content = << >> THEN ""
    ELSE (IF Get(content[1], "type", "") = "text"
          THEN Get(content[1], "text", "") ELSE "") \o TextOf(Tail(content))

\* convertResponse(ant), for ant decoded from the object d; Created, which
\* reads the clock, is left out
convertResponse(d) ==
    [id      |-> "chatcmpl-" \o Get(d, "id", ""),
     object  |-> "chat.completion",
     model   |-> Get(d, "model", ""),
     choices |-> <<[index         |-> 0,
                    message       |-> [role |-> "assistant",
                                       content |-> TextOf(Get(d, "content", << >>))],
                    finish_reason |-> Ptr(mapStopReason(Get(d, "stop_reason", "")))]>>,
     usage   |-> [prompt_tokens     |-> UsageOf(d).input_tokens,
                  completion_tokens |-> UsageOf(d).output_tokens,
                  total_tokens      |-> UsageOf(d).input_tokens
                                            + UsageOf(d).output_tokens]]

\* &oaiMessage{Role: role, Content: content}; both keys are always marshalled
oaiMessage(role, content) == [role |-> role, content |-> content]

\* the chunk writeOAIChunk marshals; a nil delta is omitted, a nil
\* finishReason is marshalled as null
oaiChunk(id, model, delta, finishReason) ==
    LET choice == [index |-> 0, finish_reason |-> finishReason]
    IN  [id      |-> "chatcmpl-" \o id,
         object  |-> "chat.completion.chunk",
         model   |-> model,
         choices |-> <<IF delta = Nil THEN choice
                       ELSE [index |-> 0, delta |-> delta,
                             finish_reason |-> finishReason]>>]

\* the bytes writeOAIChunk writes: fmt.Fprintf(w, "data: %s\n\n", data)
writeOAIChunk(id, model, delta, finishReason) ==
    <<Raw("data: "), Json(oaiChunk(id, model, delta, finishReason)), LF, LF>>

\* no terminator (a variant to test the translated stream against)
NoDoneFrame == << >>

\* fmt.Fprintf(w, "data: [DONE]\n\n")
DoneFrame == <<Raw("data: [DONE]"), LF, LF>>

\* the body http.Error(w, msg, code) writes
httpError(msg) == <<Raw(msg), LF>>

(***************************************************************************)
(* http.Header: the values of each key, the keys in their canonical form   *)
(* (the server and the client of net/http canonicalize the keys they       *)
(* read, Set and Add the keys they are given).                             *)
(***************************************************************************)
NoHeader == << >>

\* h.Get(key): the first value of the key, "" when it has none
HeaderGet(h, key) ==
    IF key \in DOMAIN h /\ h[key] # << >> THEN h[key][1] ELSE ""

\* h.Set(key, value)
HeaderSet(h, key, value) ==
    [k \in DOMAIN h \cup {key} |-> IF k = key THEN <<value>> ELSE h[k]]

\* var hopHeaders
hopHeaders ==
    {"Connection", "Keep-Alive", "Proxy-Authenticate", "Proxy-Authorization",
     "Te", "Trailer", "Transfer-Encoding", "Upgrade", "Host"}

\* copyHeaders adding the first value of each key only (a variant to test
\* the copied headers against)
copyHeadersFirstValue(dst, src) ==
    LET keys == {k \in DOMAIN src : k \notin hopHeaders /\ src[k] # << >>}
    IN  [k \in DOMAIN dst \cup keys |->
            (IF k \in DOMAIN dst THEN dst[k] ELSE << >>)
                \o (IF k \in keys THEN <<src[k][1]>> ELSE << >>)]

\* copyHeaders(dst, src): dst after it; a key without values adds nothing
copyHeaders(dst, src) ==
    LET keys == {k \in DOMAIN src : k \notin hopHeaders /\ src[k] # << >>}
    IN  [k \in DOMAIN dst \cup keys |->
            (IF k \in DOMAIN dst THEN dst[k] ELSE << >>)
                \o (IF k \in keys THEN src[k] ELSE << >>)]

\* w.Header() after http.Error(w, msg, code) on a response without headers
errorHeader ==
    HeaderSet(HeaderSet(NoHeader, "Content-Type", "text/plain; charset=utf-8"),
              "X-Content-Type-Options", "nosniff")

\* w.Header().Set("Content-Type", "application/json")
jsonHeader == HeaderSet(NoHeader, "Content-Type", "application/json")

\* the three headers handleOAIStreaming sets
streamHeader ==
    HeaderSet(HeaderSet(HeaderSet(NoHeader, "Content-Type", "text/event-stream"),
                        "Cache-Control", "no-cache"),
              "Connection", "keep-alive")

\* strings.TrimPrefix removing every leading prefix (a variant to test the
\* upstream's key against)
RECURSIVE TrimPrefixAll(_, _)
TrimPrefixAll(str, prefix) ==
    IF prefix # "" /\ HasPrefix(str, prefix)
    THEN TrimPrefixAll(SubSeq(str, Len(prefix) + 1, Len(str)), prefix)
    ELSE str

\* strings.TrimPrefix
TrimPrefix(str, prefix) ==
    IF HasPrefix(str, prefix) THEN SubSeq(str, Len(prefix) + 1, Len(str))
    ELSE str

\* upReq.Header after handleChatCompletions has set it, for the client's
\* header h
chatHeader(h) ==
    LET apiKey == HeaderGet(h, "Authorization")
        key    == IF HasPrefix(apiKey, "Bearer ")
                  THEN HeaderSet(NoHeader, "X-Api-Key",
                                 TrimPrefix(apiKey, "Bearer "))
                  ELSE NoHeader
    IN  HeaderSet(HeaderSet(key, "Content-Type", "application/json"),
                  "Anthropic-Version", "2023-06-01")

(***************************************************************************)
(* One exchange.  The handlers run to the points where they wait: for the  *)
(* upstream's answer (the input of the first action), for bytes of         *)
(* resp.Body (Read, ReadEnd), and, in handleOAINonStreaming, where the     *)
(* ledger is called before the response is written.                        *)
(***************************************************************************)
\* the body of the client's request req, by what it decodes to
Body(req) ==
    [valid |-> req.valid, model |-> req.model, stream |-> req.stream,
     messages |-> req.messages, max_tokens |-> req.max_tokens]

DefaultMaxTokens == 8192

\* the loop of convertRequest over the messages, with the first system
\* message kept (a variant to test the converted request against)
RECURSIVE liftFirstSystem(_)
liftFirstSystem(msgs) ==
    IF msgs = << >> THEN [System |-> Nil, Messages |-> << >>]
    ELSE LET ant == liftFirstSystem(SubSeq(msgs, 1, Len(msgs) - 1))
             msg == msgs[Len(msgs)]
         IN  IF msg.role = "system"
             THEN [ant EXCEPT !.System = IF @ = Nil THEN Ptr(msg.content) ELSE @]
             ELSE [ant EXCEPT !.Messages = Append(@, msg)]

\* the loop of convertRequest over the messages: ant.System and ant.Messages
\* after it
RECURSIVE liftSystem(_)
liftSystem(msgs) ==
    IF msgs = << >> THEN [System |-> Nil, Messages |-> << >>]
    ELSE LET ant == liftSystem(SubSeq(msgs, 1, Len(msgs) - 1))
             msg == msgs[Len(msgs)]
         IN  IF msg.role = "system"
             THEN [ant EXCEPT !.System = Ptr(msg.content)]
             ELSE [ant EXCEPT !.Messages = Append(@, msg)]

\* convertRequest(oai), for oai decoded from the body of req; Temperature,
\* TopP and Stop, which are copied, are left out.  A nil System is not
\* marshalled.
convertRequest(req) ==
    [model      |-> req.model,
     system     |-> liftSystem(req.messages).System,
     messages   |-> IF liftSystem(req.messages).Messages = << >>
                    THEN <<oaiMessage("user", "Hello")>>
                    ELSE liftSystem(req.messages).Messages,
     max_tokens |-> IF req.max_tokens = Nil THEN DefaultMaxTokens
                    ELSE req.max_tokens.int,
     stream     |-> req.stream]

EventStream == "text/event-stream"

\* Tracker.Record called by the handler of the exchange
HRecord(r) == Record(r) /\ nrec' = nrec + 1

\* the action leaves the ledger alone
NoRecord ==
    UNCHANGED <<pricingStore, requests, nextID, OnRecord, observed, assigned,
                epoch, tvars, pvars, nrec>>

\* s.recordError(model, start, err)
recordError(model, err) == HRecord(ErrorRecord(model, err))

\* json.Unmarshal(body, &reqInfo), its error ignored: a body that does not
\* parse leaves the zero values
reqModel(req) == IF req.valid THEN req.model ELSE ""
reqStream(req) == req.valid /\ req.stream

\* the handler is reading resp.Body
Reading == hpc \in {"readall", "errbody", "stream", "copy"}

\* resp.Body.Read returns the bytes of chunk.  io.ReadAll reads on to the
\* end; a Scanner reads when its buffer holds no whole line; io.Copy reads
\* when it has written what it read.
Read(chunk, max) ==
    /\ Reading
    /\ upend = "open"
    /\ nread < max
    /\ hpc = "stream" => ~ScanLines(buf, FALSE).ok /\ ~Overflows(buf)
    /\ hpc = "copy" => buf = << >>
    /\ buf' = buf \o chunk
    /\ received' = received \o chunk
    /\ nread' = nread + 1
    /\ UNCHANGED <<hpc, hreq, upreq, upheader, ctx, resp, upend, loc, cstatus, wheader, cbody>>
    /\ NoRecord

\* resp.Body.Read returns io.EOF ("eof") or another error ("err")
ReadEnd(e) ==
    /\ Reading
    /\ upend = "open"
    /\ hpc = "stream" => ~ScanLines(buf, FALSE).ok /\ ~Overflows(buf)
    /\ hpc = "copy" => buf = << >>
    /\ upend' = e
    /\ UNCHANGED <<hpc, hreq, upreq, upheader, ctx, resp, buf, received, nread, loc, cstatus, wheader, cbody>>
    /\ NoRecord

\* the error of a Read that fails
ReadError == "unexpected EOF"

\* Server.handleMessages, to the point where it reads resp.Body
handleMessages(req, out) ==
    /\ hpc = "idle"
    /\ ~ctx.server
    /\ req.method = "POST"
    /\ HasPrefix(req.path, "/v1/messages")
    /\ hreq' = req
    /\ upreq' = Body(req)
    /\ upheader' = copyHeaders(NoHeader, req.header)
    /\ resp' = out
    /\ UNCHANGED <<ctx, buf, received, nread, upend, loc>>
    /\ IF out.err # ""
       THEN /\ recordError(reqModel(req), out.err)
            /\ cstatus' = 502
            /\ wheader' = errorHeader
            /\ cbody' = httpError("upstream error: " \o out.err)
            /\ hpc' = "done"
       ELSE IF reqStream(req) /\ Contains(out.ct, EventStream) /\ req.flusher
       THEN \* handleStreaming: w.WriteHeader(resp.StatusCode)
            /\ NoRecord
            /\ cstatus' = out.StatusCode
            /\ wheader' = copyHeaders(NoHeader, out.Header)
            /\ cbody' = << >>
            /\ hpc' = "stream"
       ELSE \* handleNonStreaming: io.ReadAll(resp.Body)
            /\ NoRecord
            /\ UNCHANGED <<cstatus, wheader, cbody>>
            /\ hpc' = "readall"

\* Server.handleNonStreaming, after io.ReadAll has returned
handleNonStreaming ==
    /\ hpc = "readall"
    /\ HasPrefix(hreq.path, "/v1/messages")
    /\ upend # "open"
    /\ hpc' = "done"
    /\ UNCHANGED <<hreq, upreq, upheader, ctx, resp, buf, received, nread, upend, loc>>
    /\ IF upend = "err"
       THEN /\ recordError(reqModel(hreq), ReadError)
            /\ cstatus' = 502
            /\ wheader' = errorHeader
            /\ cbody' = httpError("failed to read upstream response")
       ELSE /\ cstatus' = resp.StatusCode
            /\ wheader' = copyHeaders(NoHeader, resp.Header)
            /\ cbody' = buf
            /\ IF Unmarshal(buf).ok
               THEN \E r \in UsageRecords(reqModel(hreq),
                                          UsageOf(Unmarshal(buf).doc),
                                          resp.StatusCode) : HRecord(r)
               ELSE NoRecord

\* the event of a line of the stream, as both streaming loops decode it: no
\* event for a line without the prefix "data: ", for "data: [DONE]" and for
\* data that does not parse
EventOf(line) ==
    IF /\ LineHasPrefix(line, "data: ")
       /\ SliceFrom(line, 6) # <<Raw("[DONE]")>>
       /\ Unmarshal(SliceFrom(line, 6)).ok
    THEN [ok |-> TRUE, doc |-> Unmarshal(SliceFrom(line, 6)).doc]
    ELSE [ok |-> FALSE, doc |-> << >>]

\* the switch of handleStreaming on the event ev, applied to the locals l
nativeEvent(l, ev) ==
    CASE Get(ev, "type", "") = "message_start" ->
           LET u == UsageOf(Get(ev, "message", << >>))
           IN  [l EXCEPT !.inputTokens = u.input_tokens,
                         !.cacheRead = u.cache_read_input_tokens,
                         !.cacheWrite = u.cache_creation_input_tokens]
      [] Get(ev, "type", "") = "message_delta" ->
           [l EXCEPT !.outputTokens = UsageOf(ev).output_tokens]
      [] OTHER -> l

\* Server.handleStreaming: one turn of the loop, for the line Scan returned
StreamLine ==
    /\ hpc = "stream"
    /\ HasPrefix(hreq.path, "/v1/messages")
    /\ Scans(buf, upend # "open")
    /\ LET sc   == ScanLines(buf, upend # "open")
           line == sc.token
       IN  /\ buf' = SubSeq(buf, sc.advance + 1, Len(buf))
           /\ cbody' = cbody \o line \o <<LF>>
           /\ loc' = IF EventOf(line).ok
                     THEN nativeEvent(loc, EventOf(line).doc) ELSE loc
    /\ UNCHANGED <<hpc, hreq, upreq, upheader, ctx, resp, received, nread, upend, cstatus, wheader>>
    /\ NoRecord

\* the record both streaming handlers make after their loops
StreamRecords ==
    UsageRecords(reqModel(hreq),
                 Usage(loc.inputTokens, loc.outputTokens, loc.cacheRead,
                       loc.cacheWrite),
                 resp.StatusCode)

\* Server.handleStreaming: Scan has returned false
StreamReturn ==
    /\ hpc = "stream"
    /\ HasPrefix(hreq.path, "/v1/messages")
    /\ ScanEnds(buf, upend # "open")
    /\ \E r \in StreamRecords : HRecord(r)
    /\ hpc' = "done"
    /\ UNCHANGED <<hreq, upreq, upheader, ctx, resp, buf, received, nread, upend, loc, cstatus, wheader, cbody>>

\* Server.handleChatCompletions, to the point where it reads resp.Body
handleChatCompletions(req, out) ==
    /\ hpc = "idle"
    /\ ~ctx.server
    /\ req.method = "POST"
    /\ HasPrefix(req.path, "/v1/chat/completions")
    /\ hreq' = req
    /\ UNCHANGED <<ctx, buf, received, nread, upend, loc>>
    /\ IF ~req.valid
       THEN \* no request is sent
            /\ upreq' = Nil
            /\ upheader' = NoHeader
            /\ resp' = NoResp
            /\ NoRecord
            /\ cstatus' = 400
            /\ wheader' = errorHeader
            /\ cbody' = httpError("{\"error\":{\"message\":\"invalid JSON\"}}")
            /\ hpc' = "done"
       ELSE /\ upreq' = convertRequest(req)
            /\ upheader' = chatHeader(req.header)
            /\ resp' = out
            /\ IF out.err # ""
               THEN /\ recordError(req.model, out.err)
                    /\ cstatus' = 502
                    /\ wheader' = errorHeader
                    /\ cbody' = httpError("{\"error\":{\"message\":\""
                                              \o out.err \o "\"}}")
                    /\ hpc' = "done"
               ELSE IF out.StatusCode >= 400
               THEN \* respBody, _ := io.ReadAll(resp.Body)
                    /\ NoRecord
                    /\ UNCHANGED <<cstatus, wheader, cbody>>
                    /\ hpc' = "errbody"
               ELSE IF req.stream /\ Contains(out.ct, EventStream) /\ req.flusher
               THEN \* handleOAIStreaming: w.WriteHeader(http.StatusOK)
                    /\ NoRecord
                    /\ cstatus' = 200
                    /\ wheader' = streamHeader
                    /\ cbody' = << >>
                    /\ hpc' = "stream"
               ELSE \* handleOAINonStreaming: io.ReadAll(resp.Body)
                    /\ NoRecord
                    /\ UNCHANGED <<cstatus, wheader, cbody>>
                    /\ hpc' = "readall"

\* Server.handleChatCompletions for resp.StatusCode >= 400, after io.ReadAll
\* has returned; its error is dropped
upstreamError ==
    /\ hpc = "errbody"
    /\ upend # "open"
    /\ cstatus' = resp.StatusCode
    /\ wheader' = jsonHeader
    /\ cbody' = buf
    /\ recordError(hreq.model, "upstream " \o ToString(resp.StatusCode))
    /\ hpc' = "done"
    /\ UNCHANGED <<hreq, upreq, upheader, ctx, resp, buf, received, nread, upend, loc>>

\* handleOAINonStreaming answering 200 with an empty completion when the
\* upstream's body does not parse (a variant to test the forwarded body
\* against)
handleOAINonStreamingWraps ==
    /\ hpc = "readall"
    /\ HasPrefix(hreq.path, "/v1/chat/completions")
    /\ upend # "open"
    /\ UNCHANGED <<hreq, upreq, upheader, ctx, resp, buf, received, nread, upend, loc>>
    /\ IF upend = "err"
       THEN /\ recordError(hreq.model, ReadError)
            /\ cstatus' = 502
            /\ wheader' = errorHeader
            /\ cbody' = httpError("{\"error\":{\"message\":\"failed to read upstream response\"}}")
            /\ hpc' = "done"
       ELSE IF ~Unmarshal(buf).ok
       THEN /\ NoRecord
            /\ cstatus' = 200
            /\ wheader' = jsonHeader
            /\ cbody' = <<Json(convertResponse(<< >>)), LF>>
            /\ hpc' = "done"
       ELSE /\ \E r \in UsageRecords(hreq.model, UsageOf(Unmarshal(buf).doc),
                                     resp.StatusCode) : HRecord(r)
            /\ UNCHANGED <<cstatus, wheader, cbody>>
            /\ hpc' = "encode"

\* Server.handleOAINonStreaming, after io.ReadAll has returned, to its
\* return or to the return of s.Tracker.Record
handleOAINonStreaming ==
    /\ hpc = "readall"
    /\ HasPrefix(hreq.path, "/v1/chat/completions")
    /\ upend # "open"
    /\ UNCHANGED <<hreq, upreq, upheader, ctx, resp, buf, received, nread, upend, loc>>
    /\ IF upend = "err"
       THEN /\ recordError(hreq.model, ReadError)
            /\ cstatus' = 502
            /\ wheader' = errorHeader
            /\ cbody' = httpError("{\"error\":{\"message\":\"failed to read upstream response\"}}")
            /\ hpc' = "done"
       ELSE IF ~Unmarshal(buf).ok
       THEN /\ NoRecord
            /\ cstatus' = resp.StatusCode
            /\ wheader' = jsonHeader
            /\ cbody' = buf
            /\ hpc' = "done"
       ELSE /\ \E r \in UsageRecords(hreq.model, UsageOf(Unmarshal(buf).doc),
                                     resp.StatusCode) : HRecord(r)
            /\ UNCHANGED <<cstatus, wheader, cbody>>
            /\ hpc' = "encode"

\* Server.handleOAINonStreaming, from the return of s.Tracker.Record: the
\* converted response is written
OAIEncode ==
    /\ hpc = "encode"
    /\ cstatus' = 200
    /\ wheader' = jsonHeader
    /\ cbody' = <<Json(convertResponse(Unmarshal(buf).doc)), LF>>
    /\ hpc' = "done"
    /\ UNCHANGED <<hreq, upreq, upheader, ctx, resp, buf, received, nread, upend, loc>>
    /\ NoRecord

\* textDelta without the test of the text (a variant to test the translated
\* stream against)
textDeltaAlways(l, model, delta) ==
    writeOAIChunk(l.msgID, model, oaiMessage("", Get(delta, "text", "")), Nil)

\* case "content_block_delta" of handleOAIStreaming: the bytes it writes
textDelta(l, model, delta) ==
    IF Get(delta, "type", "") = "text_delta" /\ Get(delta, "text", "") # ""
    THEN writeOAIChunk(l.msgID, model, oaiMessage("", Get(delta, "text", "")), Nil)
    ELSE << >>

\* roleChunk without the test of sentRole (a variant to test the translated
\* stream against)
roleChunkAlways(l, id, model) ==
    writeOAIChunk(id, model, oaiMessage("assistant", ""), Nil)

\* case "message_start" of handleOAIStreaming: the bytes it writes
roleChunk(l, id, model) ==
    IF l.sentRole THEN << >>
    ELSE writeOAIChunk(id, model, oaiMessage("assistant", ""), Nil)

\* the switch of handleOAIStreaming on the event ev: the locals after it and
\* the bytes it writes
oaiEvent(l, model, ev) ==
    LET type  == Get(ev, "type", "")
        delta == Get(ev, "delta", << >>)
    IN  CASE type = "message_start" ->
               LET msg == Get(ev, "message", << >>)
                   u   == UsageOf(msg)
                   id  == Get(msg, "id", "")
               IN  [loc |-> [l EXCEPT !.msgID = id,
                                      !.inputTokens = u.input_tokens,
                                      !.cacheRead = u.cache_read_input_tokens,
                                      !.cacheWrite = u.cache_creation_input_tokens,
                                      !.sentRole = TRUE],
                    out |-> roleChunk(l, id, model)]
          [] type = "content_block_delta" ->
               [loc |-> l, out |-> textDelta(l, model, delta)]
          [] type = "message_delta" ->
               [loc |-> [l EXCEPT !.outputTokens = UsageOf(ev).output_tokens],
                out |-> writeOAIChunk(l.msgID, model, Nil,
                            Ptr(mapStopReason(Get(delta, "stop_reason", ""))))]
          [] type = "message_stop" -> [loc |-> l, out |-> DoneFrame]
          [] OTHER -> [loc |-> l, out |-> << >>]

\* Server.handleOAIStreaming: one turn of the loop, for the line Scan returned
OAIStreamLine ==
    /\ hpc = "stream"
    /\ HasPrefix(hreq.path, "/v1/chat/completions")
    /\ Scans(buf, upend # "open")
    /\ LET sc   == ScanLines(buf, upend # "open")
           line == sc.token
           step == oaiEvent(loc, hreq.model, EventOf(line).doc)
       IN  /\ buf' = SubSeq(buf, sc.advance + 1, Len(buf))
           /\ cbody' = IF EventOf(line).ok THEN cbody \o step.out ELSE cbody
           /\ loc' = IF EventOf(line).ok THEN step.loc ELSE loc
    /\ UNCHANGED <<hpc, hreq, upreq, upheader, ctx, resp, received, nread, upend, cstatus, wheader>>
    /\ NoRecord

\* Server.handleOAIStreaming: Scan has returned false
OAIStreamReturn ==
    /\ hpc = "stream"
    /\ HasPrefix(hreq.path, "/v1/chat/completions")
    /\ ScanEnds(buf, upend # "open")
    /\ \E r \in StreamRecords : HRecord(r)
    /\ hpc' = "done"
    /\ UNCHANGED <<hreq, upreq, upheader, ctx, resp, buf, received, nread, upend, loc, cstatus, wheader, cbody>>

\* Server.handleRequest takes neither of its two branches
Generic(req) ==
    /\ ~(req.method = "POST" /\ HasPrefix(req.path, "/v1/chat/completions"))
    /\ ~(req.method = "POST" /\ HasPrefix(req.path, "/v1/messages"))

\* passthrough recording the failure of the upstream call as handleMessages
\* does (a variant to test the untouched ledger against)
passthroughRecording(req, out) ==
    /\ hpc = "idle"
    /\ ~ctx.server
    /\ Generic(req)
    /\ hreq' = req
    /\ upreq' = Body(req)
    /\ upheader' = copyHeaders(NoHeader, req.header)
    /\ resp' = out
    /\ UNCHANGED <<ctx, buf, received, nread, upend, loc>>
    /\ IF out.err # ""
       THEN /\ recordError(reqModel(req), out.err)
            /\ cstatus' = 502
            /\ wheader' = errorHeader
            /\ cbody' = httpError("upstream error: " \o out.err)
            /\ hpc' = "done"
       ELSE /\ NoRecord
            /\ cstatus' = out.StatusCode
            /\ wheader' = copyHeaders(NoHeader, out.Header)
            /\ cbody' = << >>
            /\ hpc' = "copy"

\* Server.passthrough, to the point where io.Copy reads resp.Body; r.Body is
\* the body of the upstream request
passthrough(req, out) ==
    /\ hpc = "idle"
    /\ ~ctx.server
    /\ Generic(req)
    /\ hreq' = req
    /\ upreq' = Body(req)
    /\ upheader' = copyHeaders(NoHeader, req.header)
    /\ resp' = out
    /\ UNCHANGED <<ctx, buf, received, nread, upend, loc>>
    /\ NoRecord
    /\ IF out.err # ""
       THEN /\ cstatus' = 502
            /\ wheader' = errorHeader
            /\ cbody' = httpError("upstream error: " \o out.err)
            /\ hpc' = "done"
       ELSE /\ cstatus' = out.StatusCode
            /\ wheader' = copyHeaders(NoHeader, out.Header)
            /\ cbody' = << >>
            /\ hpc' = "copy"

\* io.Copy(w, resp.Body): the bytes the last Read returned are written
CopyWrite ==
    /\ hpc = "copy"
    /\ buf # << >>
    /\ cbody' = cbody \o buf
    /\ buf' = << >>
    /\ UNCHANGED <<hpc, hreq, upreq, upheader, ctx, resp, received, nread, upend, loc, cstatus, wheader>>
    /\ NoRecord

\* io.Copy returns at the end of resp.Body, its error dropped
CopyReturn ==
    /\ hpc = "copy"
    /\ buf = << >>
    /\ upend # "open"
    /\ hpc' = "done"
    /\ UNCHANGED <<hreq, upreq, upheader, ctx, resp, buf, received, nread, upend, loc, cstatus, wheader, cbody>>
    /\ NoRecord

(***************************************************************************)
(* The end of the process.  Server.Start calls srv.Shutdown when its       *)
(* context is done: the listener is closed, and Shutdown waits for the     *)
(* requests being served, whose contexts it leaves alone (the server has   *)
(* no BaseContext: r.Context() is done when the client's connection closes *)
(* or the handler returns).  runServe returns, and the process ends, once  *)
(* the context is done (headless) or the dashboard is left.                *)
(***************************************************************************)
\* the handler of an exchange is running
InFlight == hpc \notin {"boot", "idle", "done", "exit"}

\* SIGINT or SIGTERM: the context of signal.NotifyContext is done, and the
\* goroutine of Server.Start calls srv.Shutdown
Signal ==
    /\ hpc \notin {"boot", "exit"}
    /\ ~ctx.server
    /\ ctx' = [ctx EXCEPT !.server = TRUE]
    /\ UNCHANGED <<hpc, hreq, upreq, upheader, resp, buf, received, nread, upend, loc, cstatus, wheader, cbody>>
    /\ NoRecord

\* the client closes its connection while the handler reads resp.Body:
\* r.Context() is done, and the Read of the upstream's body fails
ClientCloses ==
    /\ Reading
    /\ upend = "open"
    /\ ~ctx.request
    /\ ctx' = [ctx EXCEPT !.request = TRUE]
    /\ upend' = "err"
    /\ UNCHANGED <<hpc, hreq, upreq, upheader, resp, buf, received, nread, loc, cstatus, wheader, cbody>>
    /\ NoRecord

\* runServe returns: in headless mode when the context is done, else when
\* app.Run returns; the goroutines of the handlers end with the process
Exit ==
    /\ hpc \notin {"boot", "exit"}
    /\ OnRecord => ctx.server
    /\ hpc' = "exit"
    /\ UNCHANGED <<hreq, upreq, upheader, ctx, resp, buf, received, nread, upend, loc, cstatus, wheader, cbody>>
    /\ NoRecord

(***************************************************************************)
(* Start-up (cmd, root.go): the pricing of the configuration is applied,   *)
(* the ledger is made, and the proxy serves.                               *)
(***************************************************************************)
\* tracker.ModelPricingEntry
ModelPricingEntry(aliases, p) ==
    [Aliases |-> aliases, InputPerMTok |-> p.InputPerMTok,
     OutputPerMTok |-> p.OutputPerMTok,
     CacheReadPerMTok |-> p.CacheReadPerMTok,
     CacheWritePerMTok |-> p.CacheWritePerMTok]

\* the alias tables the loops of ApplyPricing can build: an alias listed by
\* several entries maps to the entry the range over the map visits last
AliasTables(models) ==
    LET listed == UNION {{models[n].Aliases[i] : i \in DOMAIN models[n].Aliases} :
                            n \in DOMAIN models}
    IN  {t \in [listed -> DOMAIN models] :
            \A a \in listed :
                \E i \in DOMAIN models[t[a]].Aliases : models[t[a]].Aliases[i] = a}

\* the stores ApplyPricing(models, fallback) can leave; a nil map and a nil
\* fallback are Nil
ApplyPricing(store, models, fallback) ==
    LET table == [n \in DOMAIN models |->
                     [InputPerMTok      |-> models[n].InputPerMTok,
                      OutputPerMTok     |-> models[n].OutputPerMTok,
                      CacheReadPerMTok  |-> models[n].CacheReadPerMTok,
                      CacheWritePerMTok |-> models[n].CacheWritePerMTok]]
        fb    == IF fallback = Nil THEN store.fallback ELSE fallback
    IN  IF models = Nil
        THEN {[store EXCEPT !.fallback = fb]}
        ELSE {[models |-> table, aliases |-> t, fallback |-> fb] :
                 t \in AliasTables(models)}

\* applyPricing(cfg) of root.go; len(cfg.Models) is 0 for << >>
applyPricing(store, cfg) ==
    IF DOMAIN cfg.Models = {} /\ cfg.Fallback = Nil THEN {store}
    ELSE ApplyPricing(store,
                      IF DOMAIN cfg.Models = {} THEN Nil ELSE cfg.Models,
                      cfg.Fallback)

\* runServe, to the point where the proxy serves
Startup(cfg, headless) ==
    /\ hpc = "boot"
    /\ pricingStore' \in applyPricing(pricingStore, cfg)
    /\ applied' = IF DOMAIN cfg.Models = {} /\ cfg.Fallback = Nil THEN applied
                  ELSE Append(applied,
                              [models |-> IF DOMAIN cfg.Models = {} THEN Nil
                                          ELSE cfg.Models,
                               fallback |-> cfg.Fallback,
                               store |-> pricingStore'])
    /\ OnRecord' = headless
    /\ hpc' = "idle"
    /\ UNCHANGED <<requests, nextID, observed, assigned, epoch, tvars, pmu, apply,
                   lookup, hreq, upreq,
                   upheader, ctx, resp, buf, received, nread, upend, loc, cstatus, wheader, cbody, nrec>>

\* the process starts with the built-in pricing tables
Init ==
    /\ pricingStore = BuiltinStore
    /\ requests = << >>
    /\ nextID = 0
    /\ OnRecord = FALSE
    /\ mu = 0
    /\ readers = 0
    /\ recent = << >>
    /\ tpc = [c \in Callers |-> "idle"]
    /\ arg = [c \in Callers |-> NoRequest]
    /\ cpc = "idle"
    /\ observed = << >>
    /\ assigned = << >>
    /\ epoch = 0
    /\ NoExchange("boot")
    /\ NoPricingCall
    /\ snap = << >>

(***************************************************************************)
(* The inputs of the exchange.                                             *)
(***************************************************************************)
\* a configuration with no pricing, and one whose aliases "claude" and
\* "claude-opus" are both prefixes of a model a client can name
Configs ==
    {[Models |-> << >>, Fallback |-> Nil],
     [Models |-> [m \in {"claude-opus-4-1-20250805", "claude-instant"} |->
                     IF m = "claude-instant"
                     THEN ModelPricingEntry(<<"claude">>, HaikuTier)
                     ELSE ModelPricingEntry(<<"claude-opus">>, OpusTier)],
      Fallback |-> Pricing(100, 500, 10, 125)]}

\* a request whose body, when it is JSON, holds one user message and no
\* max_tokens
Req(path, valid, model, stream, flusher) ==
    [method |-> "POST", path |-> path,
     header |-> HeaderSet(NoHeader, "Authorization", "Bearer sk-ant-1"),
     valid |-> valid, model |-> model, stream |-> stream,
     flusher |-> flusher, messages |-> <<oaiMessage("user", "hi")>>,
     max_tokens |-> Nil]

Paths == {"/v1/messages", "/v1/chat/completions"}

ModelNames ==
    {"claude-3-5-haiku-20241022", "claude-sonnet-4", "claude-opus-4-1", "gpt-4o"}

\* requests with a JSON body, one with a body that is not JSON, and a
\* streaming request over a connection that cannot flush
Requests ==
    {Req(p, TRUE, m, st, TRUE) : p \in Paths, m \in ModelNames, st \in BOOLEAN}
    \cup {Req(p, FALSE, "", FALSE, TRUE) : p \in Paths}
    \cup {Req(p, TRUE, "claude-sonnet-4", TRUE, FALSE) : p \in Paths}

DialError == "dial tcp 127.0.0.1:443: connect: connection refused"

\* what s.client.Do returns: an error, or a response
Response(status, ct) ==
    [err |-> "", StatusCode |-> status,
     Header |-> HeaderSet(NoHeader, "Content-Type", ct), ct |-> ct]

Responses ==
    {[err |-> DialError, StatusCode |-> 0, Header |-> NoHeader, ct |-> ""]}
    \cup {Response(st, ct) : st \in {200, 429},
                             ct \in {"application/json",
                                     "text/event-stream; charset=utf-8"}}

\* an Anthropic message with the usage block u
MessageDoc(u) ==
    [id |-> "msg_1", type |-> "message", role |-> "assistant",
     model |-> "claude-sonnet-4-20250514",
     content |-> <<[type |-> "text", text |-> "hello"]>>,
     stop_reason |-> "end_turn", usage |-> u]

\* one event of an Anthropic stream, as the line "data: {...}\n"
Frame(ev) == <<Raw("data: "), Json(ev), LF>>

message_start(id, u) ==
    [type |-> "message_start", message |-> [id |-> id, usage |-> u]]

content_block_delta(type, text) ==
    [type |-> "content_block_delta", index |-> 0,
     delta |-> [type |-> type, text |-> text]]

message_delta(reason, out) ==
    [type |-> "message_delta", delta |-> [stop_reason |-> reason],
     usage |-> [output_tokens |-> out]]

message_stop == [type |-> "message_stop"]

ping == [type |-> "ping"]

\* what a Read of resp.Body can return in the exchanges of Spec
Chunks ==
    {<<Json(MessageDoc(Usage(MaxTok, 1, 0, 0)))>>,
     <<Json(MessageDoc(Usage(0, 1, 0, 1)))>>,
     <<Json([error |-> "rate"])>>,
     <<Raw("<html>")>>,
     Frame(message_start("msg_1", Usage(MaxTok, 0, 1, 1))),
     Frame(message_delta("end_turn", 1))}

Next ==
    \/ \E cfg \in Configs, headless \in BOOLEAN : Startup(cfg, headless)
    \/ \E req \in Requests, out \in Responses : handleMessages(req, out)
    \/ \E req \in Requests, out \in Responses : handleChatCompletions(req, out)
    \/ \E chunk \in Chunks : Read(chunk, MaxReads)
    \/ \E e \in {"eof", "err"} : ReadEnd(e)
    \/ handleNonStreaming
    \/ StreamLine
    \/ StreamReturn
    \/ upstreamError
    \/ handleOAINonStreaming
    \/ OAIEncode
    \/ OAIStreamLine
    \/ OAIStreamReturn

Spec == Init /\ [][Next]_vars

(***************************************************************************)
(* Properties of one exchange.                                             *)
(***************************************************************************)
\* the exchange is over: the handler has returned
Returned == hpc = "done"

\* s.client.Do was called
Sent == resp # NoResp

OnChat == HasPrefix(hreq.path, "/v1/chat/completions")
OnMessages == HasPrefix(hreq.path, "/v1/messages")

\* the handler took a streaming loop
Streamed ==
    /\ Sent /\ resp.err = ""
    /\ reqStream(hreq) /\ Contains(resp.ct, EventStream) /\ hreq.flusher
    /\ OnChat => resp.StatusCode < 400

\* the record the exchange made last
LastRecord == requests[Len(requests)]

ZeroUsage(r) ==
    /\ r.InputTokens = 0 /\ r.OutputTokens = 0
    /\ r.CacheRead = 0 /\ r.CacheWrite = 0
    /\ r.Cost = FZero

\* float64(tokens) * price / 1_000_000
Quotient(tokens, price) == FDivInt(FMulInt(tokens, price), Million)

\* the four quotients of r under p, added in the order input, output, cache
\* read, cache write
SumOfQuotients(r, p) ==
    FAdd(FAdd(FAdd(Quotient(r.InputTokens, p.InputPerMTok),
                   Quotient(r.OutputTokens, p.OutputPerMTok)),
              Quotient(r.CacheRead, p.CacheReadPerMTok)),
         Quotient(r.CacheWrite, p.CacheWritePerMTok))

\* the four products of r under p added, then divided once
QuotientOfSum(r, p) ==
    FDivInt(FAdd(FAdd(FAdd(FMulInt(r.InputTokens, p.InputPerMTok),
                           FMulInt(r.OutputTokens, p.OutputPerMTok)),
                      FMulInt(r.CacheRead, p.CacheReadPerMTok)),
                 FMulInt(r.CacheWrite, p.CacheWritePerMTok)),
            Million)

\* C4, as claimed: every record's cost is (input*p.input + output*p.output
\* + cache_read*p.cache_read + cache_write*p.cache_write) / 1,000,000 for a
\* pricing entry p the lookup of its model resolves to.
C4_CostIsQuotientOfSum ==
    \A i \in DOMAIN requests :
        \E p \in GetPricing(requests[i].Model) :
            requests[i].Cost = QuotientOfSum(requests[i], p)

\* C4, amended: every record's cost is the float64 value CalculateCost
\* computes from its own model and counters: tokens * price / 1,000,000 is
\* rounded for each category, and the four quotients are added in the order
\* input, output, cache read, cache write, for a pricing entry the lookup of
\* its model can return.
C4_CostIsSumOfQuotients ==
    \A i \in DOMAIN requests :
        \E p \in GetPricing(requests[i].Model) :
            requests[i].Cost = SumOfQuotients(requests[i], p)

\* A record of a successful exchange is held whose cost differs from the
\* single quotient of the summed products.
C4_Witness ==
    /\ Returned
    /\ requests # << >>
    /\ LastRecord.Error = "" /\ LastRecord.CacheWrite > 0
    /\ \A p \in GetPricing(LastRecord.Model) :
           LastRecord.Cost # QuotientOfSum(LastRecord, p)

\* C5, as claimed: when the handler of an exchange whose request was sent to
\* the upstream has returned, it has called Record exactly once.
C5_RecordExactlyOnce == (Returned /\ Sent) => nrec = 1

\* C6, as claimed: on the translated path, after an upstream answer with
\* status N >= 400, the client has status N and the upstream's body, and the
\* ledger has gained one record with error "upstream N", status code N, zero
\* token counters and zero cost.
C6_UpstreamErrorMirrored ==
    (Returned /\ OnChat /\ Sent /\ resp.err = "" /\ resp.StatusCode >= 400)
        => /\ cstatus = resp.StatusCode
           /\ cbody = received
           /\ nrec = 1
           /\ LastRecord.Error = "upstream " \o ToString(resp.StatusCode)
           /\ LastRecord.StatusCode = resp.StatusCode
           /\ ZeroUsage(LastRecord)

\* C7, as claimed: on both paths, after the send to the upstream failed or
\* the read of a body that is not streamed failed, the client has status 502
\* and the ledger has gained exactly one record, with the error's string,
\* status code 0, zero token counters and zero cost.
C7_FailureRecorded ==
    (Returned /\ Sent /\ (resp.err # "" \/ (~Streamed /\ upend = "err")))
        => /\ cstatus = 502
           /\ nrec = 1
           /\ LastRecord.Error = (IF resp.err # "" THEN resp.err ELSE ReadError)
           /\ LastRecord.StatusCode = 0
           /\ ZeroUsage(LastRecord)

(***************************************************************************)
(* A native streaming exchange, byte by byte: the client posts a           *)
(* streaming request to /v1/messages and the upstream answers 200 with an  *)
(* event stream, whose bytes arrive one Read at a time.                    *)
(***************************************************************************)
NoPricing == [Models |-> << >>, Fallback |-> Nil]

StreamingResponse == Response(200, "text/event-stream")

NativeStream == Req("/v1/messages", TRUE, "claude-3-5-haiku-20241022", TRUE, TRUE)

\* the bytes of the upstream's body
NativeBytes ==
    {LF, CR, Raw("data: "), Raw("x"),
     Json(message_start("msg_1", Usage(1, 0, 0, 0)))}

NextNative ==
    \/ Startup(NoPricing, FALSE)
    \/ handleMessages(NativeStream, StreamingResponse)
    \/ \E b \in NativeBytes : Read(<<b>>, MaxBytes)
    \/ \E e \in {"eof", "err"} : ReadEnd(e)
    \/ StreamLine
    \/ StreamReturn

SpecNative == Init /\ [][NextNative]_vars

\* C8, as claimed: when a native streaming exchange is over, the body bytes
\* written to the client are the body bytes received from the upstream,
\* whatever the line terminators and whether or not the last line ends with
\* a newline.
C8_StreamedBytesUnchanged ==
    (Returned /\ OnMessages /\ Streamed /\ upend = "eof") => cbody = received

(***************************************************************************)
(* A translated streaming exchange, event by event: the client posts a     *)
(* streaming request to /v1/chat/completions and the upstream answers 200  *)
(* with an event stream, whose events arrive one Read at a time.           *)
(***************************************************************************)
ChatStream == Req("/v1/chat/completions", TRUE, "claude-sonnet-4", TRUE, TRUE)

\* the events of the upstream's stream
ChatEvents ==
    {message_start("msg_1", Usage(1, 0, 0, 0)),
     content_block_delta("text_delta", "he"),
     content_block_delta("text_delta", "llo"),
     content_block_delta("text_delta", ""),
     message_delta("max_tokens", 1),
     message_stop,
     ping}

NextChat ==
    \/ Startup(NoPricing, FALSE)
    \/ handleChatCompletions(ChatStream, StreamingResponse)
    \/ \E ev \in ChatEvents : Read(Frame(ev), MaxFrames)
    \/ \E e \in {"eof", "err"} : ReadEnd(e)
    \/ OAIStreamLine
    \/ OAIStreamReturn

SpecChat == Init /\ [][NextChat]_vars

\* the lines of the bytes b, as a reader of lines sees them; sc is the first
\* scan of b
RECURSIVE LinesOf(_)
LinesFrom(b, sc) ==
    IF ~sc.ok THEN << >>
    ELSE <<sc.token>> \o LinesOf(SubSeq(b, sc.advance + 1, Len(b)))

LinesOf(b) == LinesFrom(b, ScanLines(b, TRUE))

\* the events among the lines ls
RECURSIVE EventsAmong(_)
EventsAmong(ls) ==
    IF ls = << >> THEN << >>
    ELSE (IF EventOf(ls[1]).ok THEN <<EventOf(ls[1]).doc>> ELSE << >>)
         \o EventsAmong(Tail(ls))

\* the events the upstream has sent, and those the loop has taken
Sent_Events == EventsAmong(LinesOf(received))
Taken_Events ==
    EventsAmong(LinesOf(SubSeq(received, 1, Len(received) - Len(buf))))

TypeOf(ev) == Get(ev, "type", "")

\* what the client reads: the body is a sequence of lines "data: ..." each
\* followed by an empty line; each is the terminator or a chunk, of which
\* the client sees the first choice
WellFramedLines(ls) ==
    /\ Len(ls) % 2 = 0
    /\ \A i \in DOMAIN ls :
          IF i % 2 = 1 THEN LineHasPrefix(ls[i], "data: ") ELSE ls[i] = << >>

WellFramed == WellFramedLines(LinesOf(cbody))

Terminator == [done |-> TRUE]

SeenIn(ls) ==
    [i \in 1 .. Len(ls) \div 2 |->
        IF ls[2 * i - 1] = <<Raw("data: [DONE]")>> THEN Terminator
        ELSE Unmarshal(SliceFrom(ls[2 * i - 1], 6)).doc.choices[1]]

ClientSees == SeenIn(LinesOf(cbody))

\* the events of evs of the four types the handler acts on
Acted(evs) ==
    SelectSeq(evs, LAMBDA ev : TypeOf(ev) \in {"message_start", "content_block_delta",
                                               "message_delta", "message_stop"})

\* message_start, content_block_delta events, message_delta, message_stop
IsTurn(evs) ==
    /\ Len(evs) >= 3
    /\ TypeOf(evs[1]) = "message_start"
    /\ \A i \in 2 .. Len(evs) - 2 : TypeOf(evs[i]) = "content_block_delta"
    /\ TypeOf(evs[Len(evs) - 1]) = "message_delta"
    /\ TypeOf(evs[Len(evs)]) = "message_stop"

\* the chunks of the text deltas among evs: one for each content_block_delta
\* of type text_delta with a text that is not empty, in order
RECURSIVE TextChoices(_)
TextChoices(evs) ==
    IF evs = << >> THEN << >>
    ELSE (IF /\ TypeOf(evs[1]) = "content_block_delta"
             /\ evs[1].delta.type = "text_delta" /\ evs[1].delta.text # ""
          THEN <<[index |-> 0, delta |-> [role |-> "", content |-> evs[1].delta.text],
                  finish_reason |-> Nil]>>
          ELSE << >>)
         \o TextChoices(Tail(evs))

\* what the client is to read for the turn evs
TurnChoices(evs) ==
    <<[index |-> 0, delta |-> [role |-> "assistant", content |-> ""],
       finish_reason |-> Nil]>>
    \o TextChoices(evs)
    \o <<[index |-> 0,
          finish_reason |-> Ptr(mapStopReason(evs[Len(evs) - 1].delta.stop_reason))],
         Terminator>>

StopCount(evs) == Len(SelectSeq(evs, LAMBDA ev : TypeOf(ev) = "message_stop"))

DoneCount ==
    Len(SelectSeq(LinesOf(cbody), LAMBDA l : l = <<Raw("data: [DONE]")>>))

EndsWithTerminator ==
    /\ Len(cbody) >= Len(<<Raw("data: [DONE]"), LF, LF>>)
    /\ SubSeq(cbody, Len(cbody) - 2, Len(cbody)) = <<Raw("data: [DONE]"), LF, LF>>

MaxBlocks == 2      \* content blocks of the upstream's message

ChatPlain == Req("/v1/chat/completions", TRUE, "claude-sonnet-4", FALSE, TRUE)

JsonResponse == Response(200, "application/json")

\* the stop reasons of the API, those the mapping returns, the empty string
\* and a string of neither kind
StopReasons ==
    {"end_turn", "stop_sequence", "max_tokens", "tool_use", "stop", "length",
     "", "refusal"}

\* content blocks: text, a block without text, and a block of another type
\* that carries a text
Blocks ==
    {[type |-> "text", text |-> "he"], [type |-> "text", text |-> "llo"],
     [type |-> "tool_use", name |-> "f"], [type |-> "thinking", text |-> "hm"]}

Contents == UNION {[1 .. n -> Blocks] : n \in 0 .. MaxBlocks}

\* the usage blocks of the upstream's messages: one with cache tokens, and
\* one with a number below zero
ResponseUsages == {Usage(MaxTok, 1, 1, MaxTok), Usage(0 - 1, 0, 0, 0)}

\* the upstream's messages
NativeResponses ==
    {[id |-> "msg_1", type |-> "message", role |-> "assistant",
      model |-> "claude-sonnet-4-20250514", content |-> c, stop_reason |-> sr,
      usage |-> u] :
        c \in Contents, sr \in StopReasons, u \in ResponseUsages}

NextResponse ==
    \/ Startup(NoPricing, FALSE)
    \/ handleChatCompletions(ChatPlain, JsonResponse)
    \/ \E d \in NativeResponses : Read(<<Json(d)>>, 1)
    \/ \E e \in {"eof", "err"} : ReadEnd(e)
    \/ handleOAINonStreaming
    \/ OAIEncode

SpecResponse == Init /\ [][NextResponse]_vars

\* the client has read a converted response
Converted ==
    /\ Returned /\ OnChat /\ ~Streamed
    /\ upend = "eof" /\ Unmarshal(received).ok

\* the upstream's message and the response the client has read
Upstream_Message == Unmarshal(received).doc
Client_Response == Unmarshal(cbody).doc

\* the stop reason of the upstream's message, mapped once and mapped twice
Mapped_Once == mapStopReason(Upstream_Message.stop_reason)
Mapped_Twice == mapStopReason(Mapped_Once)

\* C11, as claimed: the finish_reason a client reads in a converted response
\* is mapStopReason of the upstream's stop reason, it is "stop" or "length",
\* and mapStopReason maps it to itself.
C11_StopReasonIdempotent ==
    Converted =>
        /\ Client_Response.choices[1].finish_reason = Ptr(Mapped_Once)
        /\ Mapped_Once \in {"stop", "length"}
        /\ Mapped_Twice = Mapped_Once

\* C11, amended: mapStopReason has a result for every string, "length" for
\* "max_tokens" and "stop" for every other string, its own results too; so
\* mapping a result again gives "stop", and the mapping of x is a fixed point
\* exactly when x is not "max_tokens".  The finish_reason a client reads in
\* a converted response is the upstream's stop reason mapped once.
C11_StopReasonMapsToStopOrLength ==
    /\ \A x \in StopReasons :
          /\ mapStopReason(x) \in {"stop", "length"}
          /\ mapStopReason(x) = "length" <=> x = "max_tokens"
          /\ mapStopReason(mapStopReason(x)) = "stop"
    /\ Converted =>
          /\ Client_Response.choices[1].finish_reason = Ptr(Mapped_Once)
          /\ Mapped_Twice = Mapped_Once
                 <=> Upstream_Message.stop_reason # "max_tokens"

\* The client has read the finish_reason "length" for the upstream's
\* "max_tokens", which mapStopReason maps to "stop".
C11_Witness ==
    /\ Converted
    /\ Upstream_Message.stop_reason = "max_tokens"
    /\ Client_Response.choices[1].finish_reason = Ptr("length")
    /\ Mapped_Twice = "stop"

\* the texts of the blocks of type "text" among content, in order
TextBlocks(content) ==
    SelectSeq(content, LAMBDA b : "type" \in DOMAIN b /\ b.type = "text")

RECURSIVE Concat(_)
Concat(blocks) ==
    IF blocks = << >> THEN ""
    ELSE Concat(SubSeq(blocks, 1, Len(blocks) - 1)) \o blocks[Len(blocks)].text

\* C15: the response the client reads for the upstream's message A has one
\* choice, with index 0 and role assistant, whose content is the texts of A's
\* blocks of type "text" concatenated in order, finish_reason
\* mapStopReason(A.stop_reason), prompt_tokens A's input tokens,
\* completion_tokens A's output tokens, total_tokens their sum (the cache
\* tokens are not counted), and id "chatcmpl-" followed by A's id.
C15_ResponseConverted ==
    Converted =>
        LET A == Upstream_Message
            R == Client_Response
        IN  /\ cstatus = 200
            /\ Len(R.choices) = 1
            /\ R.choices[1].index = 0
            /\ R.choices[1].message.role = "assistant"
            /\ R.choices[1].message.content = Concat(TextBlocks(A.content))
            /\ R.choices[1].finish_reason = Ptr(mapStopReason(A.stop_reason))
            /\ R.usage.prompt_tokens = A.usage.input_tokens
            /\ R.usage.completion_tokens = A.usage.output_tokens
            /\ R.usage.total_tokens =
                   A.usage.input_tokens + A.usage.output_tokens
            /\ R.id = "chatcmpl-" \o A.id

\* The upstream's message held a block of another type carrying a text
\* before a text block, and cache tokens; the client has read the text
\* block's text alone.
C15_Witness ==
    /\ Converted
    /\ Len(Upstream_Message.content) = MaxBlocks
    /\ Upstream_Message.content[1].type = "thinking"
    /\ Upstream_Message.content[MaxBlocks].type = "text"
    /\ Upstream_Message.usage.cache_read_input_tokens > 0
    /\ Client_Response.choices[1].message.content = "llo"

\* C19, as claimed: every record of the ledger has its four token counters
\* at or above zero and its cost at or above zero, whatever usage numbers the
\* upstream's body holds.
C19_CountersAndCostNonNegative ==
    \A i \in DOMAIN requests :
        /\ requests[i].InputTokens >= 0 /\ requests[i].OutputTokens >= 0
        /\ requests[i].CacheRead >= 0 /\ requests[i].CacheWrite >= 0
        /\ FNonNeg(requests[i].Cost)

\* the client's response was cut short: the send to the upstream failed, or
\* the upstream's body ended with an error
CutShort == Sent /\ (resp.err # "" \/ upend = "err")

\* the upstream answered below 400 and its body was read to its end
DeliveredWhole ==
    Sent /\ resp.err = "" /\ resp.StatusCode < 400 /\ upend = "eof"

\* C18, as claimed: the record of an exchange whose response was cut short,
\* as by a read error in the middle of a stream, has an error string that is
\* not empty, and the record of an exchange delivered completely has an
\* empty error string.
C18_ErrorIffCutShort ==
    (Returned /\ nrec = 1) =>
        /\ CutShort => LastRecord.Error # ""
        /\ DeliveredWhole => LastRecord.Error = ""

(***************************************************************************)
(* The pricing lookup, on the tables the start-up can install.             *)
(***************************************************************************)
\* the strings looked up: the models clients name, and every canonical name
\* and alias of the tables
Lookups ==
    ModelNames \cup DOMAIN pricingStore.models \cup DOMAIN pricingStore.aliases

IsCanonical(model) == model \in DOMAIN pricingStore.models
IsAlias(model) == model \in DOMAIN pricingStore.aliases

\* the aliases that are prefixes of model
PrefixAliases(model) ==
    {a \in DOMAIN pricingStore.aliases : HasPrefix(model, a)}

\* the entry of the canonical model of alias a
AliasEntry(a) == pricingStore.models[pricingStore.aliases[a]]

\* the longest of the aliases as
Longest(as) == CHOOSE a \in as : \A b \in as : Len(b) <= Len(a)

\* C12, as claimed: for a model that is neither a canonical name nor an
\* alias and of which two or more aliases are prefixes, every call of
\* GetPricing returns the entry of the canonical model of the longest of
\* these aliases.
C12_LongestAliasWins ==
    \A model \in Lookups :
        (/\ ~IsCanonical(model) /\ ~IsAlias(model)
         /\ Cardinality(PrefixAliases(model)) >= 2)
            => GetPricing(model) = {AliasEntry(Longest(PrefixAliases(model)))}

\* C13: GetPricing returns an entry for every string: the entry of the
\* string if it is a canonical name; else the entry of the alias's canonical
\* model if it is an alias; else the entry of the canonical model of an alias
\* that is a prefix of it, if there is one; else the fallback entry.
C13_ResolvesInOrder ==
    \A model \in Lookups :
        /\ GetPricing(model) # {}
        /\ IF IsCanonical(model)
           THEN GetPricing(model) = {pricingStore.models[model]}
           ELSE IF IsAlias(model)
           THEN GetPricing(model) = {AliasEntry(model)}
           ELSE IF PrefixAliases(model) # {}
           THEN GetPricing(model) \subseteq
                    {AliasEntry(a) : a \in PrefixAliases(model)}
           ELSE GetPricing(model) = {pricingStore.fallback}

\* The tables of the configuration are installed, in which the alias
\* "claude" is a prefix of the alias "claude-opus", and an exchange for a
\* model that no alias is a prefix of has been recorded at the cost the
\* configuration's fallback entry gives.
C13_Witness ==
    /\ Returned
    /\ IsAlias("claude") /\ IsAlias("claude-opus")
    /\ AliasEntry("claude") # AliasEntry("claude-opus")
    /\ requests # << >>
    /\ LastRecord.Model = "gpt-4o" /\ LastRecord.InputTokens > 0
    /\ LastRecord.Cost = SumOfQuotients(LastRecord, Pricing(100, 500, 10, 125))

(***************************************************************************)
(* The request of a translated exchange: the client posts a list of        *)
(* messages to /v1/chat/completions and the upstream is sent what          *)
(* convertRequest makes of it.                                             *)
(***************************************************************************)
MaxMessages == 3    \* messages of the client's request

\* two system messages of different contents, a user message and an
\* assistant message
Messages ==
    {oaiMessage("system", "S1"), oaiMessage("system", "S2"),
     oaiMessage("user", "U"), oaiMessage("assistant", "A")}

ChatRequests ==
    {[ChatPlain EXCEPT !.messages = msgs, !.max_tokens = mt] :
        msgs \in UNION {[1 .. n -> Messages] : n \in 0 .. MaxMessages},
        mt \in {Nil, [int |-> 1]}}

NextRequest ==
    \/ Startup(NoPricing, FALSE)
    \/ \E req \in ChatRequests :
          handleChatCompletions(req, [err |-> DialError, StatusCode |-> 0, Header |-> NoHeader,
                                      ct |-> ""])

SpecRequest == Init /\ [][NextRequest]_vars

SystemMessages(msgs) == SelectSeq(msgs, LAMBDA msg : msg.role = "system")
OtherMessages(msgs) == SelectSeq(msgs, LAMBDA msg : msg.role # "system")

\* C14: the request sent to the upstream for the client's messages has as
\* system field the content of the last message with role system, and none
\* when there is no such message; its messages are the client's messages of
\* other roles, in their order and unchanged, or the single message {role:
\* "user", content: "Hello"} when the client sent none of another role.
C14_SystemLifted ==
    (OnChat /\ upreq # Nil) =>
        LET sys  == SystemMessages(hreq.messages)
            rest == OtherMessages(hreq.messages)
        IN  /\ upreq.system =
                   (IF sys = << >> THEN Nil ELSE Ptr(sys[Len(sys)].content))
            /\ upreq.messages =
                   (IF rest = << >>
                    THEN <<[role |-> "user", content |-> "Hello"]>> ELSE rest)

\* The client sent a system message, a user message and a system message of
\* another content; the upstream was sent the later content as system and
\* the user message alone.
C14_Witness ==
    /\ OnChat /\ upreq # Nil
    /\ Len(hreq.messages) = MaxMessages
    /\ hreq.messages[1] = oaiMessage("system", "S1")
    /\ hreq.messages[2] = oaiMessage("user", "U")
    /\ hreq.messages[MaxMessages] = oaiMessage("system", "S2")
    /\ upreq.system = Ptr("S2")
    /\ upreq.messages = <<oaiMessage("user", "U")>>

(***************************************************************************)
(* The dashboard's request table: records arrive one at a time, the user   *)
(* clears the ledger, and the table is filled from GetRecentRequests.      *)
(***************************************************************************)
NextRecent ==
    \/ \E r \in LedgerSamples :
          Len(requests) < MaxRecords /\ Record(r) /\ UNCHANGED hvars
    \/ Clear /\ UNCHANGED hvars
    \/ \E n \in 0 .. MaxRecords + 1 : Recent(n) /\ UNCHANGED hvars

SpecRecent == InitLedger /\ [][NextRecent]_vars

Min(a, b) == IF a < b THEN a ELSE b

\* C16: a call GetRecentRequests(n), for n from 0 to more than the ledger
\* holds, returns min(n, number of records) records, the i-th of them the
\* i-th from the end of GetRequests(), so that ids decrease strictly, and
\* leaves the records and the next id as they were.
C16_RecentNewestFirst ==
    [][\A n \in 0 .. MaxRecords + 1 :
          Recent(n) =>
              /\ Len(recent') = Min(n, Len(GetRequests))
              /\ \A i \in 1 .. Len(recent') :
                    recent'[i] = GetRequests[Len(GetRequests) + 1 - i]
              /\ \A i \in 1 .. Len(recent') - 1 : recent'[i].ID > recent'[i + 1].ID
              /\ requests' = requests /\ nextID' = nextID]_vars

\* The table holds the two newest of three records, newest first.
C16_Witness ==
    /\ Len(requests) = MaxRecords
    /\ Len(recent) = MaxRecords - 1
    /\ recent[1] = requests[MaxRecords]
    /\ recent[Len(recent)] = requests[Len(requests) + 1 - Len(recent)]
    /\ recent[1].ID > recent[Len(recent)].ID

(***************************************************************************)
(* The observer of the ledger under concurrent callers.                    *)
(***************************************************************************)
\* the goroutines that have returned from Record
Finished == {c \in Callers : tpc[c] = "done"}

\* the insertion of the goroutine c is committed: its id was assigned and
\* the lock released
Committed(c) ==
    /\ mu # c
    /\ \E i \in DOMAIN assigned : assigned[i].id = arg[c].ID

\* C17: with an observer installed, every Record call that has returned has
\* invoked the observer once and no call has invoked it more often; a
\* goroutine is in the observer only after its insertion is committed and
\* never holds the lock there; and the lock is held only by a goroutine
\* inside the critical section of Record or Clear, which the observer
\* cannot keep from leaving, so that a blocked observer stops no recorder
\* and no reader.
C17_ObserverOutsideLock ==
    /\ OnRecord => Len(observed) = Cardinality(Finished)
    /\ ~OnRecord => observed = << >>
    /\ \A c \in Callers : tpc[c] = "cb" => Committed(c)
    /\ mu # 0 =>
          /\ readers = 0
          /\ \/ mu = TUI /\ cpc = "held"
             \/ mu \in Callers /\ tpc[mu] = "held"

\* A goroutine is in the observer while a second goroutine holds the lock,
\* after the observer call of a third has returned.
C17_Witness ==
    /\ OnRecord
    /\ \E c, d, e \in Callers :
          /\ tpc[c] = "cb" /\ tpc[d] = "held" /\ mu = d /\ tpc[e] = "done"
    /\ Len(observed) = 1

(***************************************************************************)
(* A streaming exchange whose upstream sends a line longer than the        *)
(* Scanner's buffer, on the native and on the translated path.             *)
(***************************************************************************)
\* what a Read of resp.Body can return: events, and a data line and a
\* comment line longer than the buffer
LongChunks ==
    {Frame(message_start("msg_1", Usage(1, 0, 0, 0))),
     Frame(message_delta("end_turn", 1)),
     Frame(message_stop),
     <<Raw("data: "), Long, LF>>,
     <<Raw(": "), Long, LF>>,
     <<Raw("data: "), LongJson(message_delta("end_turn", MaxTok)), LF>>}

NextLong ==
    \/ Startup(NoPricing, FALSE)
    \/ handleMessages(NativeStream, StreamingResponse)
    \/ handleChatCompletions(ChatStream, StreamingResponse)
    \/ \E chunk \in LongChunks : Read(chunk, MaxReads)
    \/ \E e \in {"eof", "err"} : ReadEnd(e)
    \/ StreamLine
    \/ StreamReturn
    \/ OAIStreamLine
    \/ OAIStreamReturn

SpecLong == Init /\ [][NextLong]_vars

HasLong(b) == \E i \in DOMAIN b : IsLong(b[i])

\* C20, as claimed: when a streaming exchange is over whose upstream sent a
\* line longer than the buffer, the client was written the line in full, or
\* the record of the exchange carries an error.
C20_LongLineNotDropped ==
    (Returned /\ Streamed /\ HasLong(received)) =>
        \/ HasLong(cbody)
        \/ nrec = 1 /\ LastRecord.Error # ""

(***************************************************************************)
(* Exchanges on the three paths of handleRequest, with the headers of the  *)
(* client's request and of the upstream's answer, and with answers that    *)
(* redirect.                                                               *)
(***************************************************************************)
\* the header of a client's request: three credentials, the length of the
\* body, a key with two values and hop-by-hop keys
ClientHeader(authorization) ==
    [k \in {"Authorization", "X-Api-Key", "Content-Length", "Accept",
            "Connection", "Keep-Alive", "Proxy-Authorization", "Te",
            "Upgrade"} |->
        CASE k = "Authorization" -> <<authorization>>
          [] k = "Accept" -> <<"application/json", "text/event-stream">>
          [] k = "Content-Length" -> <<"2">>
          [] OTHER -> <<"x">>]

Authorizations == {"Bearer sk-ant-1", "Bearer Bearer X", "sk-ant-1"}

\* every header of ClientHeader, and a request without headers
ClientHeaders == {NoHeader} \cup {ClientHeader(a) : a \in Authorizations}

\* a request of any method on any path
ReqWith(method, path, header, valid, stream) ==
    [Req(path, valid, "claude-sonnet-4", stream, TRUE)
        EXCEPT !.method = method, !.header = header]

ForwardRequests ==
    {ReqWith(m, p, h, v, st) :
        m \in {"POST", "GET"}, p \in Paths \cup {"/v1/models"},
        h \in ClientHeaders, v \in BOOLEAN, st \in BOOLEAN}

\* a response with the header h; ct := resp.Header.Get("Content-Type")
ResponseWith(status, h) ==
    [err |-> "", StatusCode |-> status, Header |-> h,
     ct |-> HeaderGet(h, "Content-Type")]

\* the header of an upstream's answer: its entity headers, a key with two
\* values and hop-by-hop keys
UpstreamHeader(ct) ==
    [k \in {"Content-Type", "Content-Length", "Location", "Set-Cookie",
            "Connection", "Proxy-Authenticate", "Trailer",
            "Transfer-Encoding", "Host"} |->
        CASE k = "Content-Type" -> <<ct>>
          [] k = "Location" -> <<"https://api.example/v1/messages">>
          [] k = "Set-Cookie" -> <<"a=1", "b=2">>
          [] OTHER -> <<"x">>]

\* answers 200, 302 and 429, as JSON and as an event stream, and a failed send
ForwardResponses ==
    {[err |-> DialError, StatusCode |-> 0, Header |-> NoHeader, ct |-> ""]}
    \cup {ResponseWith(st, UpstreamHeader(ct)) :
             st \in {200, 302, 429},
             ct \in {"application/json", "text/event-stream"}}

\* what a Read of resp.Body can return: a message, a page, an event
ForwardChunks ==
    {<<Json(MessageDoc(Usage(1, 1, 0, 0)))>>,
     <<Raw("<html>")>>,
     Frame(message_delta("end_turn", 1))}

NextForward ==
    \/ Startup(NoPricing, FALSE)
    \/ \E req \in ForwardRequests, out \in ForwardResponses :
          handleMessages(req, out)
    \/ \E req \in ForwardRequests, out \in ForwardResponses :
          handleChatCompletions(req, out)
    \/ \E req \in ForwardRequests, out \in ForwardResponses :
          passthrough(req, out)
    \/ \E chunk \in ForwardChunks : Read(chunk, MaxReads)
    \/ \E e \in {"eof", "err"} : ReadEnd(e)
    \/ handleNonStreaming
    \/ StreamLine
    \/ StreamReturn
    \/ upstreamError
    \/ handleOAINonStreaming
    \/ OAIEncode
    \/ OAIStreamLine
    \/ OAIStreamReturn
    \/ CopyWrite
    \/ CopyReturn

SpecForward == Init /\ [][NextForward]_vars

\* the request took the translated path, the native path, the generic path
Translated == hreq.method = "POST" /\ OnChat
Native == hreq.method = "POST" /\ OnMessages
OnGeneric == hreq # NoReq /\ Generic(hreq)

\* an answer of the upstream arrived
Answered == Sent /\ resp.err = ""

\* the translated handler took handleOAINonStreaming and read the
\* upstream's body to its end
ReadWhole ==
    /\ Returned /\ Translated /\ Answered /\ resp.StatusCode < 400
    /\ ~Streamed
    /\ upend = "eof"

\* C21: on the translated non-streaming path, after an upstream answer with a
\* status below 400 whose body, read to its end, does not parse as a native
\* response, the client has the upstream's status code and exactly the bytes
\* of the upstream's body, which are no OpenAI-shaped response since they do
\* not parse.
C21_UnparseableForwarded ==
    (ReadWhole /\ ~Unmarshal(received).ok) =>
        /\ cstatus = resp.StatusCode
        /\ cbody = received

\* an answer 302 with a page as its body has been forwarded
C21_Witness ==
    /\ ReadWhole /\ ~Unmarshal(received).ok
    /\ resp.StatusCode = 302
    /\ received = <<Raw("<html>")>>
    /\ cbody = received

\* the nine keys no copy carries
HopByHop ==
    {"Connection", "Keep-Alive", "Proxy-Authenticate", "Proxy-Authorization",
     "Te", "Trailer", "Transfer-Encoding", "Upgrade", "Host"}

\* dst has the keys of src other than the nine, each with all its values
CopyOf(dst, src) ==
    /\ DOMAIN dst = DOMAIN src \ HopByHop
    /\ \A k \in DOMAIN dst : dst[k] = src[k]

\* the handler has copied the upstream's header to the client's response
HeaderWritten ==
    /\ Answered /\ cstatus # 0
    /\ ~(Native /\ ~Streamed /\ upend = "err")

LedgerUntouched == nrec = 0 /\ requests = << >> /\ nextID = 0

\* C23: at every point of an exchange on the generic path (a request that is
\* not a POST on /v1/chat/completions... or /v1/messages...), whatever the
\* upstream did, the ledger is as it was before the exchange; and a request on
\* the translated path whose body is not JSON is answered 400 with no request
\* sent to the upstream and the ledger as it was.
C23_NoLedgerEntry ==
    /\ OnGeneric => LedgerUntouched
    /\ (Translated /\ ~hreq.valid) =>
           /\ Returned /\ cstatus = 400
           /\ upreq = Nil /\ ~Sent
           /\ LedgerUntouched

\* a GET on /v1/messages was passed through, the upstream answered 429, and
\* its body was copied to the client
C23_Witness ==
    /\ Returned /\ OnGeneric
    /\ hreq.method = "GET" /\ OnMessages
    /\ Answered /\ resp.StatusCode = 429
    /\ received # << >> /\ cbody = received
    /\ LedgerUntouched

\* C24, as claimed: on every path, when the upstream answers 3xx and its body
\* is read to its end, the client has the same status code, the upstream's
\* headers other than the hop-by-hop ones (Location among them), and the same
\* body.
C24_RedirectReturnedAsIs ==
    (Returned /\ Answered /\ resp.StatusCode \in 300 .. 399 /\ upend = "eof") =>
        /\ cstatus = resp.StatusCode
        /\ CopyOf(wheader, resp.Header)
        /\ "Location" \in DOMAIN wheader
        /\ cbody = received

\* C27: whenever the translated handler sends a request to the upstream, the
\* request has Content-Type application/json and anthropic-version
\* 2023-06-01, and, for a client's Authorization value that starts with
\* "Bearer ", an x-api-key that, with one "Bearer " put before it, is that
\* value (so "Bearer Bearer X" gives "Bearer X").
C27_BearerStrippedOnce ==
    (Translated /\ Sent) =>
        /\ upheader["Content-Type"] = <<"application/json">>
        /\ upheader["Anthropic-Version"] = <<"2023-06-01">>
        /\ HasPrefix(HeaderGet(hreq.header, "Authorization"), "Bearer ") =>
               /\ "X-Api-Key" \in DOMAIN upheader
               /\ Len(upheader["X-Api-Key"]) = 1
               /\ "Bearer " \o upheader["X-Api-Key"][1]
                      = HeaderGet(hreq.header, "Authorization")

\* the client sent "Bearer Bearer X" and the upstream got "Bearer X"
C27_Witness ==
    /\ Translated /\ Sent
    /\ HeaderGet(hreq.header, "Authorization") = "Bearer Bearer X"
    /\ upheader["X-Api-Key"] = <<"Bearer X">>

(***************************************************************************)
(* The shutdown: SIGINT or SIGTERM arrives while an exchange is being      *)
(* served, on any of the three paths, with or without the dashboard.       *)
(***************************************************************************)
ShutdownRequests ==
    {NativeStream, ChatStream, ChatPlain,
     Req("/v1/messages", TRUE, "claude-sonnet-4", FALSE, TRUE),
     ReqWith("GET", "/v1/models", NoHeader, FALSE, FALSE)}

ShutdownResponses == {StreamingResponse, JsonResponse}

ShutdownChunks ==
    {<<Json(MessageDoc(Usage(1, 1, 0, 0)))>>, Frame(message_delta("end_turn", 1))}

NextShutdown ==
    \/ \E headless \in BOOLEAN : Startup(NoPricing, headless)
    \/ \E req \in ShutdownRequests, out \in ShutdownResponses :
          handleMessages(req, out)
    \/ \E req \in ShutdownRequests, out \in ShutdownResponses :
          handleChatCompletions(req, out)
    \/ \E req \in ShutdownRequests, out \in ShutdownResponses :
          passthrough(req, out)
    \/ \E chunk \in ShutdownChunks : Read(chunk, MaxReads)
    \/ \E e \in {"eof", "err"} : ReadEnd(e)
    \/ handleNonStreaming
    \/ StreamLine
    \/ StreamReturn
    \/ handleOAINonStreaming
    \/ OAIEncode
    \/ OAIStreamLine
    \/ OAIStreamReturn
    \/ CopyWrite
    \/ CopyReturn
    \/ Signal
    \/ ClientCloses
    \/ Exit

SpecShutdown == Init /\ [][NextShutdown]_vars

\* C25, as claimed: once the cancellation signal has fired, no step adds a
\* record to the ledger, so an exchange in flight when it fires does not call
\* Record afterwards.
C25_NoRecordAfterSignal ==
    [][ctx.server => (requests' = requests /\ nrec' = nrec)]_vars

\* C26, as claimed: from the step in which the cancellation signal fires, the
\* context of every request in flight is done, and no further byte is read
\* from the upstream's body (the pending call is aborted, the forwarder reads
\* no further line), so that the handler ends without waiting for the
\* upstream.
C26_InFlightCancelled ==
    [][(ctx.server' /\ InFlight') =>
           (ctx.request' /\ received' = received)]_vars

(***************************************************************************)
(* The record of an exchange and the response to the client.               *)
(***************************************************************************)
\* C28, as claimed: whenever the handler of an exchange has called Record,
\* the response to the client (its status and its whole body, or the error
\* response) has been written; so on the translated non-streaming path the
\* response is written before Record is called.
C28_RecordAfterResponse == nrec > 0 => (cstatus # 0 /\ Returned)

\* the last event of the type among evs, << >> when there is none
LastOfType(evs, type) ==
    LET of == SelectSeq(evs, LAMBDA ev : TypeOf(ev) = type)
    IN  IF of = << >> THEN << >> ELSE of[Len(of)]

\* C29, as claimed: when the handler of a streamed exchange (native or
\* translated) has returned, it has made one record, whose input, cache-read
\* and cache-write counts are those of the last message_start frame that
\* parses among the lines of the upstream (0 without one), whose output count
\* is that of the last message_delta frame that parses (0 without one), whose
\* model is the model of the client's request and whose status code is the
\* upstream's; other lines count for nothing.
C29_RecordHasLastFrames ==
    (Returned /\ Streamed) =>
        /\ nrec = 1
        /\ LET start == UsageOf(Get(LastOfType(Sent_Events, "message_start"),
                                    "message", << >>))
               delta == UsageOf(LastOfType(Sent_Events, "message_delta"))
           IN  /\ LastRecord.InputTokens = start.input_tokens
               /\ LastRecord.CacheRead = start.cache_read_input_tokens
               /\ LastRecord.CacheWrite = start.cache_creation_input_tokens
               /\ LastRecord.OutputTokens = delta.output_tokens
        /\ LastRecord.Model = hreq.model
        /\ LastRecord.StatusCode = resp.StatusCode

\* the lines ls as handleStreaming writes them: each followed by "\n"
RECURSIVE Forwarded(_)
Forwarded(ls) ==
    IF ls = << >> THEN << >> ELSE ls[1] \o <<LF>> \o Forwarded(Tail(ls))

\* the client asked for a stream and the upstream answered with one, over a
\* response writer that cannot flush
FellBack ==
    /\ Answered
    /\ reqStream(hreq) /\ Contains(resp.ct, EventStream) /\ ~hreq.flusher
    /\ OnChat => resp.StatusCode < 400

\* C30, as claimed: while the native handler streams, every line the Scanner
\* has returned is written to the client: no line is held back when the next
\* is read; and when the response writer cannot flush, the handler, having
\* taken the non-streaming handler and read the body to its end, has made
\* exactly one record.
C30_FlushedOrFallenBack ==
    /\ (Streamed /\ OnMessages) =>
           cbody = Forwarded(LinesOf(SubSeq(received, 1,
                                            Len(received) - Len(buf))))
    /\ (Returned /\ FellBack /\ upend = "eof") => nrec = 1

(***************************************************************************)
(* The pricing store under concurrent callers (pricing.go).  One goroutine *)
(* calls ApplyPricing, step by step under pricingStore.mu, while others    *)
(* call GetPricing under its read lock.                                    *)
(***************************************************************************)
\* the variables the callers of ApplyPricing and GetPricing leave alone
lvars ==
    <<requests, nextID, OnRecord, observed, assigned, epoch, tvars, hvars>>

\* m[k] = v on a Go map
MapSet(m, k, v) == [x \in DOMAIN m \cup {k} |-> IF x = k THEN v ELSE m[x]]

\* the ModelPricing ApplyPricing stores for an entry
PricingOf(entry) ==
    [InputPerMTok      |-> entry.InputPerMTok,
     OutputPerMTok     |-> entry.OutputPerMTok,
     CacheReadPerMTok  |-> entry.CacheReadPerMTok,
     CacheWritePerMTok |-> entry.CacheWritePerMTok]

ApplyIdle == [pc |-> "idle", models |-> Nil, fallback |-> Nil, todo |-> {}]

\* ApplyLock without pricingStore.mu.Lock() (a variant to test the atomicity
\* of ApplyPricing against)
ApplyLockNotTaken(models, fallback) ==
    /\ apply.pc = "idle"
    /\ Len(applied) <= MaxApplies
    /\ pmu' = pmu
    /\ apply' = [pc |-> "held", models |-> models, fallback |-> fallback,
                 todo |-> {}]
    /\ UNCHANGED <<pricingStore, lookup, applied, lvars>>

\* ApplyPricing(models, fallback) is called: pricingStore.mu.Lock()
ApplyLock(models, fallback) ==
    /\ apply.pc = "idle"
    /\ Len(applied) <= MaxApplies
    /\ ~pmu.writer /\ pmu.readers = 0
    /\ pmu' = [pmu EXCEPT !.writer = TRUE]
    /\ apply' = [pc |-> "held", models |-> models, fallback |-> fallback,
                 todo |-> {}]
    /\ UNCHANGED <<pricingStore, lookup, applied, lvars>>

\* ApplyModels keeping the tables it finds (a variant to test the replacement
\* of the tables against)
ApplyModelsKeepsTables ==
    /\ apply.pc = "held"
    /\ pricingStore' = pricingStore
    /\ apply' = IF apply.models = Nil \/ DOMAIN apply.models = {}
                THEN [apply EXCEPT !.pc = "fallback"]
                ELSE [apply EXCEPT !.pc = "range", !.todo = DOMAIN apply.models]
    /\ UNCHANGED <<pmu, lookup, applied, lvars>>

\* if models != nil: pricingStore.models and pricingStore.aliases are made
\* anew, empty, and the range over models begins
ApplyModels ==
    /\ apply.pc = "held"
    /\ pricingStore' = IF apply.models = Nil THEN pricingStore
                       ELSE [pricingStore EXCEPT !.models = << >>,
                                                 !.aliases = << >>]
    /\ apply' = IF apply.models = Nil \/ DOMAIN apply.models = {}
                THEN [apply EXCEPT !.pc = "fallback"]
                ELSE [apply EXCEPT !.pc = "range", !.todo = DOMAIN apply.models]
    /\ UNCHANGED <<pmu, lookup, applied, lvars>>

\* one turn of for name, entry := range models, in the order of the map:
\* pricingStore.models[name] = ModelPricing{...}, and
\* pricingStore.aliases[alias] = name for every alias of the entry
ApplyEntry(name) ==
    /\ apply.pc = "range"
    /\ name \in apply.todo
    /\ LET entry  == apply.models[name]
           listed == {entry.Aliases[i] : i \in DOMAIN entry.Aliases}
       IN  pricingStore' =
               [pricingStore EXCEPT
                   !.models = MapSet(@, name, PricingOf(entry)),
                   !.aliases = [a \in DOMAIN @ \cup listed |->
                                   IF a \in listed THEN name ELSE @[a]]]
    /\ apply' = [apply EXCEPT
                    !.todo = @ \ {name},
                    !.pc = IF apply.todo = {name} THEN "fallback" ELSE "range"]
    /\ UNCHANGED <<pmu, lookup, applied, lvars>>

\* if fallback != nil { pricingStore.fallback = *fallback }, and the deferred
\* pricingStore.mu.Unlock()
ApplyReturn ==
    /\ apply.pc = "fallback"
    /\ pricingStore' = IF apply.fallback = Nil THEN pricingStore
                       ELSE [pricingStore EXCEPT !.fallback = apply.fallback]
    /\ pmu' = [pmu EXCEPT !.writer = FALSE]
    /\ applied' = Append(applied, [models |-> apply.models,
                                   fallback |-> apply.fallback,
                                   store |-> pricingStore'])
    /\ apply' = ApplyIdle
    /\ UNCHANGED <<lookup, lvars>>

\* GetPricing(model) is called: pricingStore.mu.RLock()
GetPricingRLock(g, model) ==
    /\ lookup[g].pc = "idle"
    /\ ~pmu.writer
    /\ pmu' = [pmu EXCEPT !.readers = @ + 1]
    /\ lookup' = [lookup EXCEPT ![g] = [pc |-> "held", model |-> model,
                                        at |-> Len(applied), p |-> Nil]]
    /\ UNCHANGED <<pricingStore, apply, applied, lvars>>

\* the lookup returns p, and the deferred pricingStore.mu.RUnlock()
GetPricingReturn(g, p) ==
    /\ lookup[g].pc = "held"
    /\ p \in GetPricing(lookup[g].model)
    /\ pmu' = [pmu EXCEPT !.readers = @ - 1]
    /\ lookup' = [lookup EXCEPT ![g] = [@ EXCEPT !.pc = "idle", !.p = p]]
    /\ UNCHANGED <<pricingStore, apply, applied, lvars>>

\* the maps ApplyPricing is called with: nil, the maps of Configs (one of
\* them empty), and a map no alias of which is a prefix of a built-in name
PricingMaps ==
    {Nil} \cup {cfg.Models : cfg \in Configs}
          \cup {[m \in {"gpt-4o"} |-> ModelPricingEntry(<<"gpt-4">>, HaikuTier)]}

\* the fallbacks ApplyPricing is called with: nil, and the one of Configs
Fallbacks == {cfg.Fallback : cfg \in Configs}

\* the models GetPricing is asked for: a built-in canonical name, a built-in
\* alias, a name the aliases "claude" and "claude-opus" are prefixes of, and
\* a name of another vendor
LookupModels ==
    {"claude-opus-4-20250514", "claude-3-5-haiku", "claude-opus-4-1", "gpt-4"}

Lookers == 1 .. NumLookups

NextPricing ==
    \/ \E models \in PricingMaps, fallback \in Fallbacks :
          ApplyLock(models, fallback)
    \/ ApplyModels
    \/ \E name \in apply.todo : ApplyEntry(name)
    \/ ApplyReturn
    \/ \E g \in Lookers, model \in LookupModels : GetPricingRLock(g, model)
    \/ \E g \in Lookers : \E p \in GetPricing(lookup[g].model) :
          GetPricingReturn(g, p)

SpecPricing == Init /\ [][NextPricing]_vars

\* C31: every pricing a GetPricing call returned while ApplyPricing calls ran
\* beside it is one the lookup yields on a whole table, the one in place when
\* the lookup began (the built-in store or the store a returned ApplyPricing
\* left), never on a table half replaced; and an ApplyPricing call with a nil
\* models map left the canonical and alias tables as they were, one with a
\* nil fallback left the fallback as it was.
C31_ApplyIsAtomic ==
    /\ \A g \in Lookers :
          lookup[g].p # Nil =>
              lookup[g].p \in GetPricingIn(applied[lookup[g].at].store,
                                           lookup[g].model)
    /\ \A i \in 2 .. Len(applied) :
          /\ applied[i].models = Nil =>
                /\ applied[i].store.models = applied[i - 1].store.models
                /\ applied[i].store.aliases = applied[i - 1].store.aliases
          /\ applied[i].fallback = Nil =>
                applied[i].store.fallback = applied[i - 1].store.fallback

\* A lookup that began after an ApplyPricing call replaced the tables got a
\* pricing the built-in store does not yield, while the next ApplyPricing
\* call, one with a nil map or a nil fallback, has returned.
C31_Witness ==
    /\ \E g \in Lookers :
          /\ lookup[g].p # Nil
          /\ lookup[g].at = 2
          /\ applied[2].models # Nil
          /\ lookup[g].p \notin GetPricingIn(BuiltinStore, lookup[g].model)
    /\ Len(applied) = 3
    /\ applied[3].models = Nil \/ applied[3].fallback = Nil

(***************************************************************************)
(* The ledger as the export reads it: records arrive one at a time, the    *)
(* user clears the ledger, and every export takes a GetRequests snapshot.  *)
(***************************************************************************)
NextExport ==
    \/ \E r \in LedgerSamples :
          Len(requests) < MaxRecords /\ Record(r) /\ UNCHANGED <<hvars, snap>>
    \/ Clear /\ UNCHANGED <<hvars, snap>>
    \/ export

SpecExport == InitLedger /\ [][NextExport]_vars

\* s is t, or t cut after some record
IsPrefix(s, t) == Len(s) <= Len(t) /\ s = SubSeq(t, 1, Len(s))

\* C32: in a step with no Clear the records stored before it are, unchanged
\* and in the same order, the first records stored after it; of two
\* GetRequests snapshots taken one after the other with no Clear between them
\* the earlier is a prefix of the later; and a step of Record or Clear leaves
\* the snapshots already returned as they were.
C32_AppendOnlyBetweenClears ==
    [][/\ epoch' = epoch => IsPrefix(requests, requests')
       /\ (Len(snap') = 2 /\ snap'[1].epoch = snap'[2].epoch)
              => IsPrefix(snap'[1].out, snap'[2].out)
       /\ requests' # requests => snap' = snap]_vars

\* Two snapshots were taken with no Clear between them, the later holding a
\* record more than the earlier, and a Record has followed them.
C32_Witness ==
    /\ Len(snap) = 2
    /\ snap[1].epoch = snap[2].epoch
    /\ Len(snap[1].out) >= 1
    /\ Len(snap[2].out) > Len(snap[1].out)
    /\ epoch = snap[2].epoch
    /\ Len(requests) > Len(snap[2].out)

(***************************************************************************)
(* A translated stream whose events come in any order: the upstream sends  *)
(* message_start events with two message ids, text deltas, message_delta   *)
(* and message_stop, up to MaxFrames of them.                              *)
(***************************************************************************)
RoleEvents ==
    {message_start("msg_1", Usage(1, 0, 0, 0)),
     message_start("msg_2", Usage(1, 0, 0, 0)),
     content_block_delta("text_delta", "he"),
     message_delta("end_turn", 1),
     message_stop}

NextRole ==
    \/ Startup(NoPricing, FALSE)
    \/ handleChatCompletions(ChatStream, StreamingResponse)
    \/ \E ev \in RoleEvents : Read(Frame(ev), MaxFrames)
    \/ \E e \in {"eof", "err"} : ReadEnd(e)
    \/ OAIStreamLine
    \/ OAIStreamReturn

SpecRole == Init /\ [][NextRole]_vars

\* the line holds a chunk: it is a data line other than the terminator
IsChunkLine(l) == LineHasPrefix(l, "data: ") /\ l # <<Raw("data: [DONE]")>>

\* the chunks of the lines ls, each a data line
ChunksIn(ls) == [i \in DOMAIN ls |-> Unmarshal(SliceFrom(ls[i], 6)).doc]

\* the chunks the client has read, in order
ClientChunks == ChunksIn(SelectSeq(LinesOf(cbody), IsChunkLine))

HasDelta(chunk) == "delta" \in DOMAIN chunk.choices[1]
IsRoleChunk(chunk) ==
    HasDelta(chunk) /\ chunk.choices[1].delta = oaiMessage("assistant", "")
IsContentChunk(chunk) == HasDelta(chunk) /\ ~IsRoleChunk(chunk)
IsFinishChunk(chunk) == ~HasDelta(chunk) /\ chunk.choices[1].finish_reason # Nil

RoleCount == Len(SelectSeq(ClientChunks, IsRoleChunk))

\* the message_start events the loop has taken
Starts == SelectSeq(Taken_Events, LAMBDA ev : TypeOf(ev) = "message_start")

\* the first event the loop acted on is a message_start
StartsFirst ==
    /\ Acted(Taken_Events) # << >>
    /\ TypeOf(Acted(Taken_Events)[1]) = "message_start"

\* C33, as claimed: in every translated stream, whatever the order of the
\* upstream's events, the client reads the role chunk at most once and before
\* every content chunk and every finish_reason chunk, and all chunks carry
\* the id "chatcmpl-" followed by the message id of message_start.
C33_RoleFirstAndOneId ==
    (hpc \in {"stream", "done"} /\ OnChat)
        => /\ RoleCount <= 1
           /\ \A i \in DOMAIN ClientChunks :
                 (IsContentChunk(ClientChunks[i]) \/ IsFinishChunk(ClientChunks[i]))
                     => \E j \in 1 .. i - 1 : IsRoleChunk(ClientChunks[j])
           /\ \A i \in DOMAIN ClientChunks :
                 \E k \in DOMAIN Starts :
                     ClientChunks[i].id = "chatcmpl-" \o Starts[k].message.id
           /\ \A i, j \in DOMAIN ClientChunks :
                 ClientChunks[i].id = ClientChunks[j].id

\* C33, amended: in every translated stream the client reads the role chunk
\* at most once; when the first event the loop acted on is a message_start,
\* the role chunk is the first chunk, before every content chunk and every
\* finish_reason chunk; and when moreover every message_start taken carries
\* the same message id, all chunks carry the id "chatcmpl-" followed by it.
C33_RoleOnceAndFirstAfterStart ==
    (hpc \in {"stream", "done"} /\ OnChat)
        => /\ RoleCount <= 1
           /\ StartsFirst =>
                 /\ IsRoleChunk(ClientChunks[1])
                 /\ \A i \in DOMAIN ClientChunks :
                       i > 1 => ~IsRoleChunk(ClientChunks[i])
           /\ (StartsFirst /\ \A k \in DOMAIN Starts :
                                 Starts[k].message.id = Starts[1].message.id)
                 => \A i \in DOMAIN ClientChunks :
                       ClientChunks[i].id = "chatcmpl-" \o Starts[1].message.id

\* The upstream sent message_start twice with the same id, the first ahead
\* of a text delta and a message_delta; the exchange is over and the client
\* has read the role chunk, a content chunk and a finish_reason chunk.
C33_Witness ==
    /\ Returned /\ OnChat /\ Streamed
    /\ StartsFirst
    /\ Len(Starts) = 2
    /\ Starts[1].message.id = Starts[2].message.id
    /\ Len(ClientChunks) = 3
    /\ IsRoleChunk(ClientChunks[1])
    /\ IsContentChunk(ClientChunks[2])
    /\ IsFinishChunk(ClientChunks[3])

\* the aliases the entries of the map models list
ListedAliases(models) ==
    UNION {{models[n].Aliases[i] : i \in DOMAIN models[n].Aliases} :
              n \in DOMAIN models}

\* the built-in canonical names and aliases
BuiltinNames == DOMAIN BuiltinModels \cup DOMAIN BuiltinAliases

\* C34: the store an ApplyPricing call with a models map that is not nil left
\* holds as canonical entries the entries of the map and no other, and as
\* aliases the aliases the map lists and no other, each for an entry that
\* lists it; so a built-in canonical name or alias that is not a name or an
\* alias of the map is priced by the entry of a new alias that is a prefix of
\* it, or by the fallback when there is none, whatever its built-in prices.
C34_OnlySuppliedEntries ==
    \A i \in 2 .. Len(applied) :
        applied[i].models # Nil =>
            LET models == applied[i].models
                store  == applied[i].store
                listed == ListedAliases(models)
            IN  /\ DOMAIN store.models = DOMAIN models
                /\ \A n \in DOMAIN models : store.models[n] = PricingOf(models[n])
                /\ DOMAIN store.aliases = listed
                /\ \A a \in listed :
                      \E k \in DOMAIN models[store.aliases[a]].Aliases :
                          models[store.aliases[a]].Aliases[k] = a
                /\ \A b \in BuiltinNames \ (DOMAIN models \cup listed) :
                      GetPricingIn(store, b) =
                          IF \E a \in listed : HasPrefix(b, a)
                          THEN {PricingOf(models[store.aliases[a]]) :
                                   a \in {x \in listed : HasPrefix(b, x)}}
                          ELSE {store.fallback}

\* After ApplyPricing installed the two entries of the configuration, a
\* lookup of the built-in name claude-opus-4-20250514 got the prices of the
\* entry whose alias "claude" is a prefix of it, not the built-in ones.
C34_Witness ==
    /\ Len(applied) >= 2
    /\ applied[2].models # Nil
    /\ DOMAIN applied[2].models = {"claude-opus-4-1-20250805", "claude-instant"}
    /\ \E g \in Lookers :
          /\ lookup[g].at = 2
          /\ lookup[g].model = "claude-opus-4-20250514"
          /\ lookup[g].p = HaikuTier
          /\ lookup[g].p # BuiltinModels[lookup[g].model]

(***************************************************************************)
(* The ledger under concurrent Record calls and no Clear: NumCallers       *)
(* goroutines call Record once each, with or without an observer, while    *)
(* the export takes GetRequests snapshots.                                 *)
(***************************************************************************)
NextRecords ==
    \/ \E c \in Callers, r \in LedgerSamples : CallRecord(c, r)
    \/ \E c \in Callers : RecordLock(c)
    \/ \E c \in Callers : RecordInsert(c)
    \/ \E c \in Callers : RecordCallback(c)
    \/ export

SpecRecords == InitLedger /\ [][NextRecords]_vars

\* every caller's Record has returned
AllReturned == \A c \in Callers : tpc[c] = "done"

\* the highest id among the records reqs, 0 when there is none
HighestID(reqs) ==
    IF reqs = << >> THEN 0
    ELSE CHOOSE n \in {reqs[i].ID : i \in DOMAIN reqs} :
             \A i \in DOMAIN reqs : reqs[i].ID <= n

\* C35: when the Record calls of all NumCallers goroutines, run in any
\* interleaving on a ledger that was empty and is not cleared, have returned,
\* the ledger holds NumCallers records, the record of each caller (the
\* Request it passed, with the id it was given) exactly once, and no two
\* records have the same id; and every GetRequests snapshot taken meanwhile
\* holds as many records as its highest id.
C35_NoInsertionLost ==
    /\ AllReturned =>
          /\ Len(requests) = NumCallers
          /\ \A c \in Callers :
                Cardinality({i \in DOMAIN requests : requests[i] = arg[c]}) = 1
          /\ \A i, j \in DOMAIN requests :
                i # j => requests[i].ID # requests[j].ID
    /\ \A k \in DOMAIN snap : Len(snap[k].out) = HighestID(snap[k].out)

\* All calls have returned, the goroutine that called second was the first
\* to insert, and snapshots were taken after the first and after the second
\* insertion.
C35_Witness ==
    /\ AllReturned
    /\ requests[1] = arg[2]
    /\ Len(snap) = 2
    /\ Len(snap[1].out) = 1
    /\ Len(snap[2].out) = 2

\* C36, as claimed: with an observer installed and no Clear, under every
\* interleaving of concurrent Record calls the ids passed to the observer
\* come in increasing order, and a goroutine about to call the observer for
\* a record finds the record in the ledger.
C36_ObserverInInsertionOrder ==
    OnRecord =>
        /\ \A i, j \in DOMAIN observed : i < j => observed[i] < observed[j]
        /\ \A c \in Callers :
              tpc[c] = "cb" => \E i \in DOMAIN requests : requests[i] = arg[c]

\* C36, amended: with an observer installed and no Clear, under every
\* interleaving of concurrent Record calls a goroutine about to call the
\* observer for a record finds the record in the ledger, every id passed to
\* the observer is the id of a record in the ledger and is passed once, and
\* when all calls have returned the ids passed are the ids of the ledger's
\* records; their order is not claimed.
C36_ObserverAfterInsertion ==
    OnRecord =>
        /\ \A c \in Callers :
              tpc[c] = "cb" => \E i \in DOMAIN requests : requests[i] = arg[c]
        /\ \A i \in DOMAIN observed :
              \E k \in DOMAIN requests : requests[k].ID = observed[i]
        /\ \A i, j \in DOMAIN observed : i # j => observed[i] # observed[j]
        /\ AllReturned =>
              {observed[i] : i \in DOMAIN observed} =
                  {requests[k].ID : k \in DOMAIN requests}

\* All calls have returned and the observer was called for the second record
\* before it was called for the first.
C36_Witness ==
    /\ OnRecord
    /\ AllReturned
    /\ Len(observed) = NumCallers
    /\ observed[1] = 2
    /\ observed[2] = 1

====
